---- MODULE Spec2Model ----
(***************************************************************************)
(* Model of one max-assistant session: the ConnectionManager supervisor    *)
(* (connection_manager.py), the STT client (clients/stt_client.py) and the *)
(* TTS client (clients/tts_client.py), as asyncio tasks.                   *)
(*                                                                         *)
(* A task runs atomically from one await to the next, so every action is   *)
(* the code between two awaits.  pc[t] names the await a task is suspended *)
(* at.  Task.cancel() sets cancel_req[t]; the CancelledError is raised at  *)
(* the await the task is suspended at, which is the task's next step.      *)
(***************************************************************************)
EXTENDS Integers, Sequences, FiniteSets, TLC

\* ---- bounds of the model: what the environment does at most ----
\* Spec, the supervision scenario
SupMsgs == 1
SupSttFails == 1
SupTtsConns == 2
\* SpecStt, the streaming scenario
SttMsgs == 2
SttFails == 1
SttTtsConns == 1
\* SpecAudio, the audio scenario
AudAudio == 3
AudFails == 1
AudTtsConns == 1
\* SpecControl, control frames and audio during a turn
CtlTexts == 1
CtlAudio == 1
CtlMsgs == 1
CtlTtsConns == 1
SessTexts == 1
SessReplies == 1
RegCalls == 3
RegQueries == 3
\* SpecTts, the TTS client alone
TtsCalls == 6
TtsConns == 4
\* SpecEngine, the reasoning engine with any model
EngTurns == 1
EngInvokes == 2
\* SpecRaise, a model server that may fail
RaiseTurns == 3
RaiseInvokes == 2
\* SpecLoop, a model that keeps asking for tools
LoopTurns == 2
LoopInvokes == 13
\* SpecPrepare, prepare_input on any list
PrepLen == 3
PrepTurns == 1
\* SpecPrune, the long conversation
PruneTurns == 6
PruneInvokes == 2

\* config.py lines 47-48: the default of MESSAGE_PRUNING_LIMIT.
MESSAGE_PRUNING_LIMIT == 10
\* FairSpec, the liveness scenario
FairMsgs == 1
FairTexts == 1
FairSttFails == 1
FairTtsConns == 2

\* ---- tasks ----
\* reader, writer, main : created by handle_connection
\* conn, warm           : children of the gather in _run_main_logic
\* agent, text          : processing_tasks of _run_main_logic
\* fwd                  : forwarder_task of STTClient.transcript_generator
Tasks == {"reader", "writer", "main", "conn", "warm", "agent", "text", "fwd"}
TopTasks == {"reader", "writer", "main"}
ProcessingTasks == {"agent", "text"}
TtsCallers == {"conn", "warm", "agent"}

DefaultVoice == "v0"

VARIABLES
    tool_providers,      \* ToolRegistry._tool_providers
    tool_instances,      \* ToolRegistry._tool_instances: per class, which
                         \* construction of it is cached (0: none)
    register_log,        \* every register_provider call so far, in order
    result,              \* what the last call on the registry returned
    n_queries,           \* calls of get_all_tools and get_tool_provider
    engine_tools,        \* the tools bound to the model by the engine
    startup,             \* AppServices.create: init | ready | aborted
    managers,            \* the ConnectionManager of each of two connections
    objects,             \* the objects the ConnectionManagers have created
    reasoning_engine,    \* main.py: the global reasoning_engine is set
    close_code,          \* code of client_ws.close(), 0 while not called
    sup_pc,              \* position of websocket_endpoint / handle_connection
    tasks,               \* self._tasks
    st,                  \* task state: none | run | done | cancelled
    pc,                  \* the await each task is suspended at
    cancel_req,          \* Task.cancel() called, CancelledError not yet raised
    shutdown_event,      \* self._shutdown_event
    binary_input_queue,
    text_input_queue,
    client_output_queue,
    n_audio,             \* binary frames received from the transport so far
    n_text,              \* text frames received from the transport so far
    send_failed,         \* a send on the transport has raised
    llm_ready,           \* app_services.llm_ready_event
    voice,               \* conversation_state["voice"]
    inv_voice,           \* inputs["voice"] of the reasoning call in flight
    applied_voice,       \* the voice of the last set_voice call
    synth_voice,         \* the voice the agent loop last asked the TTS for
    stt_conns,           \* STT connections established so far
    stt_fails,           \* STT failures injected so far
    stt_alive,           \* the current stt_ws is open
    stt_error,           \* an unexpected STT error was raised in the generator
    n_stt,               \* messages received from the STT service so far
    stt_received,        \* log: <<message, connection>> returned by recv()
    yielded,             \* log: <<message, connection>> yielded to the loop
    message_str,         \* the generator's message_str
    message_kind,        \* what _agent_loop makes of message_str
    g_after,             \* what follows the generator's finally block
    gen_state,           \* async generator: none | live | orphan | closing | closed
    fwd_chunk,           \* audio_chunk held by the forwarder
    stt_sent,            \* log: <<frame, connection>> sent to the STT service
    inflight,            \* reasoning-engine invocations in flight
    agent_exit,          \* how _agent_loop ended
    tts_client,          \* TTSClient._client: 0 is None, else connection id
    tts_lock,            \* TTSClient._lock: "free" or the holding task
    tts_next,            \* TTS connections opened so far
    tts_discarded,       \* TTS connections closed or invalidated
    tts_req,             \* per call: wav_writer / audio_received
    n_connect,           \* connect() calls made on a client driven directly
    eng_pc,              \* the node of the graph that runs next, or idle
    messages,            \* state["messages"] of the graph
    conversation_state,  \* Agent.conversation_state["messages"]
    transcribed_text,    \* the utterance of the turn (its number)
    model_input,         \* the messages the model was last called with
    response,            \* the model's last response
    n_turns,             \* turns started
    n_invoke,            \* calls of the model in this turn
    n_exec,              \* runs of execute_tools in this turn
    tool_log,            \* the calls whose tool was run in this turn
    next_uid,            \* fresh message and call ids
    llm_response,        \* what Agent.ainvoke returned
    events,              \* the events read so far by one synthesize_speech
    synth,               \* its wav_writer and audio_received
    synth_result,        \* idle, reading, or what it returned
    n_synth,             \* requests made
    create_args,         \* Neo4jClient.create: max_retries, initial_delay, backoff_factor
    create_pc,           \* idle, try, sleep, or how the call ended
    attempt,             \* its loop variable
    delay,               \* its delay
    outcomes,            \* what each attempt of the retry loop under way met
    slept,               \* the delays it has slept
    n_create,            \* calls of create
    preload_args,        \* preload_model_async: max_retries, retry_delay
    preload_pc,          \* none, try, sleep, or how the task ended
    retries              \* its counter

vars == <<tool_providers, tool_instances, register_log, result, n_queries,
          engine_tools, startup,
          managers, objects, reasoning_engine, close_code,
          sup_pc, tasks, st, pc, cancel_req, shutdown_event,
          binary_input_queue, text_input_queue, client_output_queue,
          n_audio, n_text, send_failed, llm_ready, voice, inv_voice,
          applied_voice, synth_voice,
          stt_conns, stt_fails, stt_alive, stt_error, n_stt, stt_received,
          yielded, message_str, message_kind, g_after, gen_state,
          fwd_chunk, stt_sent,
          inflight, agent_exit,
          tts_client, tts_lock, tts_next, tts_discarded, tts_req,
          n_connect, eng_pc, messages, conversation_state, transcribed_text,
          model_input, response, n_turns, n_invoke, n_exec, tool_log,
          next_uid, llm_response,
          events, synth, synth_result, n_synth,
          create_args, create_pc, attempt, delay, outcomes, slept, n_create,
          preload_args, preload_pc, retries>>

supVars == <<sup_pc, tasks>>
taskVars == <<st, pc, cancel_req>>
queueVars == <<binary_input_queue, text_input_queue, client_output_queue>>
wsVars == <<n_audio, n_text, send_failed>>
convVars == <<voice, inv_voice, applied_voice, synth_voice>>
sttVars == <<stt_conns, stt_fails, stt_alive, stt_error, n_stt,
             stt_received, yielded, message_str, message_kind, g_after,
             gen_state>>
fwdVars == <<fwd_chunk, stt_sent>>
agentVars == <<inflight, agent_exit>>
ttsVars == <<tts_client, tts_lock, tts_next, tts_discarded, tts_req,
            n_connect>>
engVars == <<eng_pc, messages, conversation_state, transcribed_text,
            model_input, response, n_turns, n_invoke, n_exec, tool_log,
            next_uid, llm_response>>

NoReq == [wav_writer |-> FALSE, audio_received |-> FALSE]

NoArgs == [max_retries |-> 0, initial_delay |-> 0, backoff_factor |-> 0]

Running(t) == st[t] = "run"
Finished(t) == st[t] \in {"done", "cancelled"}

\* No response of the model yet.
NoResponse ==
    [kind |-> "none", uid |-> 0,
     content |-> [form |-> "empty", name |-> "absent", parameters |-> "absent"],
     text |-> 0, tool_calls |-> <<>>, tool_call_id |-> 0]

\* ConnectionManager.__init__, TTSClient.__init__, Agent.__init__; the
\* readiness event belongs to the shared AppServices.
Sessions == {1, 2}

\* The objects a ConnectionManager refers to (lines 38-48), by their place
\* among the objects created so far.
Fields ==
    {"tts_client", "agent", "text_input_queue", "client_output_queue",
     "shutdown_event"}

NoManager ==
    [state |-> "none", tasks |-> "none", n_text |-> 0,
     refs |-> [f \in Fields |-> 0]]

\* The provider classes: P and Q have tools, R has no get_tools method.
Providers == {"P", "Q", "R"}

NoResult == [call |-> "none", arg |-> "none", raised |-> FALSE, value |-> <<>>]

InitFrom(at, engines, ready, stored) ==
    /\ tool_providers = <<>>
    /\ tool_instances = [c \in Providers |-> 0]
    /\ register_log = <<>>
    /\ result = NoResult
    /\ n_queries = 0
    /\ engine_tools = <<>>
    /\ startup = "init"
    /\ managers = [s \in Sessions |-> NoManager]
    /\ objects = <<>>
    /\ reasoning_engine \in engines
    /\ close_code = 0
    /\ sup_pc = at
    /\ tasks = {}
    /\ st = [t \in Tasks |-> "none"]
    /\ pc = [t \in Tasks |-> "-"]
    /\ cancel_req = [t \in Tasks |-> FALSE]
    /\ shutdown_event = FALSE
    /\ binary_input_queue = <<>>
    /\ text_input_queue = <<>>
    /\ client_output_queue = <<>>
    /\ n_audio = 0
    /\ n_text = 0
    /\ send_failed = FALSE
    /\ llm_ready \in ready
    /\ voice = DefaultVoice
    /\ inv_voice = DefaultVoice
    /\ applied_voice = DefaultVoice
    /\ synth_voice = DefaultVoice
    /\ stt_conns = 0
    /\ stt_fails = 0
    /\ stt_alive = FALSE
    /\ stt_error = FALSE
    /\ n_stt = 0
    /\ stt_received = <<>>
    /\ yielded = <<>>
    /\ message_str = 0
    /\ message_kind = "none"
    /\ g_after = "-"
    /\ gen_state = "none"
    /\ fwd_chunk = 0
    /\ stt_sent = <<>>
    /\ inflight = 0
    /\ agent_exit = "-"
    /\ tts_client = 0
    /\ tts_lock = "free"
    /\ tts_next = 0
    /\ tts_discarded = {}
    /\ tts_req = [t \in TtsCallers |-> NoReq]
    /\ n_connect = 0
    /\ eng_pc = "idle"
    /\ messages = <<>>
    /\ conversation_state \in stored
    /\ transcribed_text = 0
    /\ model_input = <<>>
    /\ response = NoResponse
    /\ n_turns = 0
    /\ n_invoke = 0
    /\ n_exec = 0
    /\ tool_log = <<>>
    /\ next_uid = Len(conversation_state) + 1
    /\ llm_response = [form |-> "empty", name |-> "absent", parameters |-> "absent"]
    /\ events = <<>>
    /\ synth = NoReq
    /\ synth_result = "idle"
    /\ n_synth = 0
    /\ create_args = NoArgs
    /\ create_pc = "idle"
    /\ attempt = 0
    /\ delay = 0
    /\ outcomes = <<>>
    /\ slept = <<>>
    /\ n_create = 0
    /\ preload_args = [max_retries |-> 0, retry_delay |-> 0]
    /\ preload_pc = "none"
    /\ retries = 0


\* handle_connection is about to be called (main.py line 131).
InitWith(ready, stored) == InitFrom("init", {TRUE}, ready, stored)

\* A session before its first turn: nothing stored.
InitSession(ready) == InitWith(ready, {<<>>})

\* ---------------------------------------------------------------------
\* asyncio helpers
\* ---------------------------------------------------------------------

\* Task.cancel() on every task of ts that is not done (_cancel_tasks, the
\* for loop); a gather that is cancelled cancels its children the same way.
CancelAll(cr, ts) ==
    [t \in Tasks |-> IF t \in ts /\ st[t] = "run" THEN TRUE ELSE cr[t]]

\* asyncio.gather(*tasks, return_exceptions=True) returns once every task
\* of the list is done.
AllStopped(ts) == \A t \in ts : ~Running(t)

\* asyncio.wait(..., return_when=FIRST_COMPLETED)
FirstCompleted(ts) == \E t \in ts : Finished(t)

\* ---------------------------------------------------------------------
\* websocket_endpoint (main.py)
\* ---------------------------------------------------------------------

\* main.py lines 116-131, after client_ws.accept(): without a reasoning
\* engine the connection is closed with code 1011 and the endpoint returns;
\* else the ConnectionManager is built and handle_connection is called.
WebsocketEndpoint ==
    /\ sup_pc = "accepted"
    /\ IF reasoning_engine
         THEN /\ sup_pc' = "init"
              /\ close_code' = close_code
         ELSE /\ sup_pc' = "rejected"
              /\ close_code' = 1011
    /\ UNCHANGED <<taskVars, queueVars, wsVars, convVars, sttVars, fwdVars,
                   agentVars, ttsVars, engVars, tool_providers,
                   tool_instances, register_log, result, n_queries,
                   engine_tools, startup, managers, objects,
                   reasoning_engine, tasks, shutdown_event, llm_ready,
                   events, synth, synth_result, n_synth, create_args,
                   create_pc, attempt, delay, outcomes, slept, n_create,
                   preload_args, preload_pc, retries>>

\* ---------------------------------------------------------------------
\* ConnectionManager.handle_connection
\* ---------------------------------------------------------------------

\* Lines 59-63: the three tasks are created; _run_main_logic starts the
\* gather of tts_client.connect() and _handle_llm_warmup().
HandleConnectionStart ==
    /\ sup_pc = "init"
    /\ sup_pc' = "wait"
    /\ tasks' = TopTasks
    /\ st' = [t \in Tasks |->
                IF t \in TopTasks \cup {"conn", "warm"} THEN "run" ELSE st[t]]
    /\ pc' = [pc EXCEPT !["reader"] = "receive", !["writer"] = "get",
                        !["main"] = "startup", !["conn"] = "lock",
                        !["warm"] = "begin"]
    /\ UNCHANGED <<queueVars, wsVars, convVars, sttVars, fwdVars, agentVars,
                   ttsVars, engVars, tool_providers, tool_instances,
                   register_log, result, n_queries, engine_tools, startup,
                   managers, objects, reasoning_engine, close_code,
                   cancel_req, shutdown_event, llm_ready, events, synth,
                   synth_result, n_synth, create_args, create_pc, attempt,
                   delay, outcomes, slept, n_create, preload_args,
                   preload_pc, retries>>

\* Lines 68-75: asyncio.wait returns, then the finally block sets the flag
\* and _cancel_tasks cancels every task of self._tasks that is not done.
HandleConnectionFinally ==
    /\ sup_pc = "wait"
    /\ FirstCompleted(TopTasks)
    /\ shutdown_event' = TRUE
    /\ cancel_req' = CancelAll(CancelAll(cancel_req, tasks),
                        IF Running("main") /\ pc["main"] = "startup"
                            THEN {"conn", "warm"}
                        ELSE IF Running("main") /\ pc["main"] = "gather"
                            THEN ProcessingTasks
                        ELSE {})
    /\ pc' = [pc EXCEPT !["main"] =
                IF Running("main") /\ pc["main"] = "startup" THEN "startup_cancelled"
                ELSE IF Running("main") /\ pc["main"] = "gather" THEN "gather_cancelled"
                ELSE @]
    /\ sup_pc' = "gather"
    /\ UNCHANGED <<queueVars, wsVars, convVars, sttVars, fwdVars, agentVars,
                   ttsVars, engVars, tool_providers, tool_instances,
                   register_log, result, n_queries, engine_tools, startup,
                   managers, objects, reasoning_engine, close_code, tasks,
                   st, llm_ready, events, synth, synth_result, n_synth,
                   create_args, create_pc, attempt, delay, outcomes, slept,
                   n_create, preload_args, preload_pc, retries>>

\* Line 237 then line 76: the gather of _cancel_tasks returns and
\* tts_client.close() starts (it awaits disconnect() only if _client is set).
CancelTasksGathered ==
    /\ sup_pc = "gather"
    /\ AllStopped(tasks)
    /\ sup_pc' = IF tts_client = 0 THEN "returned" ELSE "close"
    /\ UNCHANGED <<taskVars, queueVars, wsVars, convVars, sttVars, fwdVars,
                   agentVars, ttsVars, engVars, tool_providers,
                   tool_instances, register_log, result, n_queries,
                   engine_tools, startup, managers, objects,
                   reasoning_engine, close_code, tasks, shutdown_event,
                   llm_ready, events, synth, synth_result, n_synth,
                   create_args, create_pc, attempt, delay, outcomes, slept,
                   n_create, preload_args, preload_pc, retries>>

\* TTSClient.close(), lines 113-119, called from handle_connection.
CloseClient_Keep == tts_client
CloseClient == 0

Discard(c) == IF c = 0 THEN tts_discarded ELSE tts_discarded \cup {c}

HandleConnectionClosed ==
    /\ sup_pc = "close"
    /\ tts_discarded' = Discard(tts_client)
    /\ tts_client' = CloseClient
    /\ sup_pc' = "returned"
    /\ UNCHANGED <<taskVars, queueVars, wsVars, convVars, sttVars, fwdVars,
                   agentVars, engVars, tool_providers, tool_instances,
                   register_log, result, n_queries, engine_tools, startup,
                   managers, objects, reasoning_engine, close_code, tasks,
                   shutdown_event, llm_ready, tts_lock, tts_next, tts_req,
                   n_connect, events, synth, synth_result, n_synth,
                   create_args, create_pc, attempt, delay, outcomes, slept,
                   n_create, preload_args, preload_pc, retries>>

\* ---------------------------------------------------------------------
\* ConnectionManager._client_reader
\* ---------------------------------------------------------------------

ReaderAt == Running("reader") /\ pc["reader"] = "receive" /\ ~cancel_req["reader"]

\* The loop condition of line 131 after a frame was queued; leaving the
\* loop runs the finally block (flag set) and ends the task.
ReaderNext(stNow) ==
    IF shutdown_event THEN [stNow EXCEPT !["reader"] = "done"] ELSE stNow

\* Lines 136-137: a text frame goes to text_input_queue.
ClientReaderText(max, kinds) ==
    /\ ReaderAt
    /\ n_text < max
    /\ \E k \in kinds :
         text_input_queue' = Append(text_input_queue, k)
    /\ n_text' = n_text + 1
    /\ st' = ReaderNext(st)
    /\ UNCHANGED <<supVars, convVars, sttVars, fwdVars, agentVars, ttsVars,
                   engVars, tool_providers, tool_instances, register_log,
                   result, n_queries, engine_tools, startup, managers,
                   objects, reasoning_engine, close_code, pc, cancel_req,
                   shutdown_event, binary_input_queue, client_output_queue,
                   n_audio, send_failed, llm_ready, events, synth,
                   synth_result, n_synth, create_args, create_pc, attempt,
                   delay, outcomes, slept, n_create, preload_args,
                   preload_pc, retries>>

\* Lines 138-139: a binary frame goes to binary_input_queue.
Enqueue_Drop(q, x) == q
Enqueue(q, x) == Append(q, x)

ClientReaderBytes(max) ==
    /\ ReaderAt
    /\ n_audio < max
    /\ n_audio' = n_audio + 1
    /\ binary_input_queue' = Enqueue(binary_input_queue, n_audio + 1)
    /\ st' = ReaderNext(st)
    /\ UNCHANGED <<supVars, convVars, sttVars, fwdVars, agentVars, ttsVars,
                   engVars, tool_providers, tool_instances, register_log,
                   result, n_queries, engine_tools, startup, managers,
                   objects, reasoning_engine, close_code, pc, cancel_req,
                   shutdown_event, text_input_queue, client_output_queue,
                   n_text, send_failed, llm_ready, events, synth,
                   synth_result, n_synth, create_args, create_pc, attempt,
                   delay, outcomes, slept, n_create, preload_args,
                   preload_pc, retries>>

\* Lines 133-135, 140-148: a disconnect message, WebSocketDisconnect or any
\* other exception ends the loop; the finally block sets the flag.
ClientReaderStop ==
    /\ ReaderAt
    /\ shutdown_event' = TRUE
    /\ st' = [st EXCEPT !["reader"] = "done"]
    /\ UNCHANGED <<supVars, queueVars, wsVars, convVars, sttVars, fwdVars,
                   agentVars, ttsVars, engVars, tool_providers,
                   tool_instances, register_log, result, n_queries,
                   engine_tools, startup, managers, objects,
                   reasoning_engine, close_code, pc, cancel_req, llm_ready,
                   events, synth, synth_result, n_synth, create_args,
                   create_pc, attempt, delay, outcomes, slept, n_create,
                   preload_args, preload_pc, retries>>

\* Lines 142-143, 147-148: CancelledError is caught; the flag is set.
ClientReaderCancelled ==
    /\ Running("reader") /\ cancel_req["reader"]
    /\ shutdown_event' = TRUE
    /\ st' = [st EXCEPT !["reader"] = "done"]
    /\ cancel_req' = [cancel_req EXCEPT !["reader"] = FALSE]
    /\ UNCHANGED <<supVars, queueVars, wsVars, convVars, sttVars, fwdVars,
                   agentVars, ttsVars, engVars, tool_providers,
                   tool_instances, register_log, result, n_queries,
                   engine_tools, startup, managers, objects,
                   reasoning_engine, close_code, pc, llm_ready, events,
                   synth, synth_result, n_synth, create_args, create_pc,
                   attempt, delay, outcomes, slept, n_create, preload_args,
                   preload_pc, retries>>

\* ---------------------------------------------------------------------
\* ConnectionManager._client_writer
\* ---------------------------------------------------------------------

\* Lines 154-158, then the loop condition of line 153: an item is taken
\* from client_output_queue and sent.
ClientWriterSent ==
    /\ Running("writer") /\ ~cancel_req["writer"]
    /\ client_output_queue # <<>>
    /\ client_output_queue' = Tail(client_output_queue)
    /\ st' = IF shutdown_event THEN [st EXCEPT !["writer"] = "done"] ELSE st
    /\ UNCHANGED <<supVars, wsVars, convVars, sttVars, fwdVars, agentVars,
                   ttsVars, engVars, tool_providers, tool_instances,
                   register_log, result, n_queries, engine_tools, startup,
                   managers, objects, reasoning_engine, close_code, pc,
                   cancel_req, shutdown_event, binary_input_queue,
                   text_input_queue, llm_ready, events, synth, synth_result,
                   n_synth, create_args, create_pc, attempt, delay, outcomes,
                   slept, n_create, preload_args, preload_pc, retries>>

\* Lines 159-164: the exception of a send leaves the while loop.
WriterAfterFailure_Continue(stNow) == stNow
WriterAfterFailure(stNow) == [stNow EXCEPT !["writer"] = "done"]

\* Lines 159-166: the send raises; the finally block sets the flag.
ClientWriterSendFail ==
    /\ Running("writer") /\ ~cancel_req["writer"]
    /\ client_output_queue # <<>>
    /\ client_output_queue' = Tail(client_output_queue)
    /\ send_failed' = TRUE
    /\ shutdown_event' = TRUE
    /\ st' = WriterAfterFailure(st)
    /\ UNCHANGED <<supVars, convVars, sttVars, fwdVars, agentVars, ttsVars,
                   engVars, tool_providers, tool_instances, register_log,
                   result, n_queries, engine_tools, startup, managers,
                   objects, reasoning_engine, close_code, pc, cancel_req,
                   binary_input_queue, text_input_queue, n_audio, n_text,
                   llm_ready, events, synth, synth_result, n_synth,
                   create_args, create_pc, attempt, delay, outcomes, slept,
                   n_create, preload_args, preload_pc, retries>>

\* Lines 161-162, 165-166.
ClientWriterCancelled ==
    /\ Running("writer") /\ cancel_req["writer"]
    /\ shutdown_event' = TRUE
    /\ st' = [st EXCEPT !["writer"] = "done"]
    /\ cancel_req' = [cancel_req EXCEPT !["writer"] = FALSE]
    /\ UNCHANGED <<supVars, queueVars, wsVars, convVars, sttVars, fwdVars,
                   agentVars, ttsVars, engVars, tool_providers,
                   tool_instances, register_log, result, n_queries,
                   engine_tools, startup, managers, objects,
                   reasoning_engine, close_code, pc, llm_ready, events,
                   synth, synth_result, n_synth, create_args, create_pc,
                   attempt, delay, outcomes, slept, n_create, preload_args,
                   preload_pc, retries>>

\* ---------------------------------------------------------------------
\* ConnectionManager._text_input_handler_loop
\* ---------------------------------------------------------------------

\* agent.set_voice (agent.py lines 76-78) for the {"voice": ...} frame.
SetVoice(k) == IF k = "voice" THEN "vb" ELSE voice

\* Lines 173-184 for one queued frame, then the loop condition of line 171.
\*   voice : a JSON object with a "voice" key
\*   bad   : JSONDecodeError or TypeError, logged and skipped
\*   fatal : any other exception, lines 187-189 set the flag and end the loop
TextHandlerGet ==
    /\ Running("text") /\ pc["text"] = "get" /\ ~cancel_req["text"]
    /\ text_input_queue # <<>>
    /\ LET k == Head(text_input_queue) IN
         /\ text_input_queue' = Tail(text_input_queue)
         /\ voice' = SetVoice(k)
         /\ applied_voice' = IF k = "voice" THEN SetVoice(k) ELSE applied_voice
         /\ shutdown_event' = (shutdown_event \/ k = "fatal")
         /\ st' = IF k = "fatal" \/ shutdown_event
                    THEN [st EXCEPT !["text"] = "done"] ELSE st
    /\ UNCHANGED <<supVars, wsVars, sttVars, fwdVars, agentVars, ttsVars,
                   engVars, tool_providers, tool_instances, register_log,
                   result, n_queries, engine_tools, startup, managers,
                   objects, reasoning_engine, close_code, pc, cancel_req,
                   binary_input_queue, client_output_queue, llm_ready,
                   inv_voice, synth_voice, events, synth, synth_result,
                   n_synth, create_args, create_pc, attempt, delay, outcomes,
                   slept, n_create, preload_args, preload_pc, retries>>

\* Lines 180-182: the bounded wait times out; the loop condition is checked.
TextHandlerTimeout ==
    /\ Running("text") /\ pc["text"] = "get" /\ ~cancel_req["text"]
    /\ text_input_queue = <<>>
    /\ st' = IF shutdown_event THEN [st EXCEPT !["text"] = "done"] ELSE st
    /\ UNCHANGED <<supVars, queueVars, wsVars, convVars, sttVars, fwdVars,
                   agentVars, ttsVars, engVars, tool_providers,
                   tool_instances, register_log, result, n_queries,
                   engine_tools, startup, managers, objects,
                   reasoning_engine, close_code, pc, cancel_req,
                   shutdown_event, llm_ready, events, synth, synth_result,
                   n_synth, create_args, create_pc, attempt, delay, outcomes,
                   slept, n_create, preload_args, preload_pc, retries>>

\* Lines 185-186.
TextHandlerCancelled ==
    /\ Running("text") /\ cancel_req["text"]
    /\ st' = [st EXCEPT !["text"] = "done"]
    /\ cancel_req' = [cancel_req EXCEPT !["text"] = FALSE]
    /\ UNCHANGED <<supVars, queueVars, wsVars, convVars, sttVars, fwdVars,
                   agentVars, ttsVars, engVars, tool_providers,
                   tool_instances, register_log, result, n_queries,
                   engine_tools, startup, managers, objects,
                   reasoning_engine, close_code, pc, shutdown_event,
                   llm_ready, events, synth, synth_result, n_synth,
                   create_args, create_pc, attempt, delay, outcomes, slept,
                   n_create, preload_args, preload_pc, retries>>

\* ---------------------------------------------------------------------
\* ConnectionManager._run_main_logic and _handle_llm_warmup
\* ---------------------------------------------------------------------

\* The readiness event is set by the preloader (ollama_preloader.py lines
\* 86-87).
LlmReady ==
    /\ ~llm_ready
    /\ llm_ready' = TRUE
    /\ UNCHANGED <<supVars, taskVars, queueVars, wsVars, convVars, sttVars,
                   fwdVars, agentVars, ttsVars, engVars, tool_providers,
                   tool_instances, register_log, result, n_queries,
                   engine_tools, startup, managers, objects,
                   reasoning_engine, close_code, shutdown_event, events,
                   synth, synth_result, n_synth, create_args, create_pc,
                   attempt, delay, outcomes, slept, n_create, preload_args,
                   preload_pc, retries>>

\* Lines 85-88: asyncio.gather returns when connect() and
\* _handle_llm_warmup() have both returned.
ServicesReady_ConnOnly == st["conn"] = "done"
ServicesReady == st["conn"] = "done" /\ st["warm"] = "done"

\* Lines 85-95: the gather of connect() and _handle_llm_warmup() returns;
\* the two processing tasks are created and appended to self._tasks.
RunMainLogicStarted ==
    /\ Running("main") /\ pc["main"] = "startup"
    /\ ServicesReady
    /\ st' = [st EXCEPT !["agent"] = "run", !["text"] = "run"]
    /\ pc' = [pc EXCEPT !["main"] = "gather", !["agent"] = "top",
                        !["text"] = "get"]
    /\ tasks' = tasks \cup ProcessingTasks
    /\ gen_state' = "live"
    /\ UNCHANGED <<queueVars, wsVars, convVars, fwdVars, agentVars, ttsVars,
                   engVars, tool_providers, tool_instances, register_log,
                   result, n_queries, engine_tools, startup, managers,
                   objects, reasoning_engine, close_code, sup_pc, cancel_req,
                   shutdown_event, llm_ready, stt_conns, stt_fails,
                   stt_alive, stt_error, n_stt, stt_received, yielded,
                   message_str, message_kind, g_after, events, synth,
                   synth_result, n_synth, create_args, create_pc, attempt,
                   delay, outcomes, slept, n_create, preload_args,
                   preload_pc, retries>>

\* Line 85 raises CancelledError once the cancelled children have stopped;
\* the await is outside the try block, so the task ends cancelled.
RunMainLogicAborted ==
    /\ Running("main") /\ pc["main"] = "startup_cancelled"
    /\ AllStopped({"conn", "warm"})
    /\ st' = [st EXCEPT !["main"] = "cancelled"]
    /\ cancel_req' = [cancel_req EXCEPT !["main"] = FALSE]
    /\ UNCHANGED <<supVars, queueVars, wsVars, convVars, sttVars, fwdVars,
                   agentVars, ttsVars, engVars, tool_providers,
                   tool_instances, register_log, result, n_queries,
                   engine_tools, startup, managers, objects,
                   reasoning_engine, close_code, pc, shutdown_event,
                   llm_ready, events, synth, synth_result, n_synth,
                   create_args, create_pc, attempt, delay, outcomes, slept,
                   n_create, preload_args, preload_pc, retries>>

\* Lines 97-104: the gather of the processing tasks returns (or raises
\* CancelledError once both have stopped); _cancel_tasks finds them done.
RunMainLogicStopped ==
    /\ Running("main") /\ pc["main"] \in {"gather", "gather_cancelled"}
    /\ AllStopped(ProcessingTasks)
    /\ st' = [st EXCEPT !["main"] = "done"]
    /\ cancel_req' = [cancel_req EXCEPT !["main"] = FALSE]
    /\ UNCHANGED <<supVars, queueVars, wsVars, convVars, sttVars, fwdVars,
                   agentVars, ttsVars, engVars, tool_providers,
                   tool_instances, register_log, result, n_queries,
                   engine_tools, startup, managers, objects,
                   reasoning_engine, close_code, pc, shutdown_event,
                   llm_ready, events, synth, synth_result, n_synth,
                   create_args, create_pc, attempt, delay, outcomes, slept,
                   n_create, preload_args, preload_pc, retries>>

\* Lines 110-117: nothing to do when the LLM is ready; else the waiting
\* message is queued and synthesize_speech is called.
HandleLlmWarmupBegin ==
    /\ Running("warm") /\ pc["warm"] = "begin" /\ ~cancel_req["warm"]
    /\ IF llm_ready
         THEN /\ st' = [st EXCEPT !["warm"] = "done"]
              /\ UNCHANGED <<pc, client_output_queue>>
         ELSE /\ client_output_queue' =
                    Append(client_output_queue, <<"wait", 0>>)
              /\ pc' = [pc EXCEPT !["warm"] = "lock"]
              /\ st' = st
    /\ UNCHANGED <<supVars, wsVars, convVars, sttVars, fwdVars, agentVars,
                   ttsVars, engVars, tool_providers, tool_instances,
                   register_log, result, n_queries, engine_tools, startup,
                   managers, objects, reasoning_engine, close_code,
                   cancel_req, shutdown_event, binary_input_queue,
                   text_input_queue, llm_ready, events, synth, synth_result,
                   n_synth, create_args, create_pc, attempt, delay, outcomes,
                   slept, n_create, preload_args, preload_pc, retries>>

\* Line 125: llm_ready_event.wait() returns.
HandleLlmWarmupReady ==
    /\ Running("warm") /\ pc["warm"] = "llmwait" /\ ~cancel_req["warm"]
    /\ llm_ready
    /\ st' = [st EXCEPT !["warm"] = "done"]
    /\ UNCHANGED <<supVars, queueVars, wsVars, convVars, sttVars, fwdVars,
                   agentVars, ttsVars, engVars, tool_providers,
                   tool_instances, register_log, result, n_queries,
                   engine_tools, startup, managers, objects,
                   reasoning_engine, close_code, pc, cancel_req,
                   shutdown_event, llm_ready, events, synth, synth_result,
                   n_synth, create_args, create_pc, attempt, delay, outcomes,
                   slept, n_create, preload_args, preload_pc, retries>>

\* ---------------------------------------------------------------------
\* TTSClient (clients/tts_client.py)
\* ---------------------------------------------------------------------

TtsPcs == {"lock", "tconn", "tsleep", "write", "read", "tclose"}

\* asyncio.Lock: a waiter proceeds only when the lock is not held.
LockFree_Always == TRUE
LockFree == tts_lock = "free"

\* "async with self._lock" exit: the holder releases.
Release(t) == IF tts_lock = t THEN "free" ELSE tts_lock

\* The loop condition the generator evaluates when it is resumed after a
\* yield (stt_client.py line 59): receive again or leave the connection.
AgentResumePc == IF shutdown_event THEN "gclose" ELSE "recv"

\* Output item for a clip returned to caller t.
AudioItem_AsEcho(t) == <<"echo", message_str>>
AudioItem(t) ==
    IF t = "warm" THEN <<"waitaudio", 0>> ELSE <<"audio", message_str>>

\* synthesize_speech returns res to its caller t, which continues:
\*   warm  : connection_manager.py lines 120-125
\*   agent : connection_manager.py lines 215-217, then the next transcript
SynthReturn(t, res) ==
    /\ tts_lock' = Release(t)
    /\ tts_req' = [tts_req EXCEPT ![t] = NoReq]
    /\ client_output_queue' =
          IF res = "audio" THEN Append(client_output_queue, AudioItem(t))
                           ELSE client_output_queue
    /\ IF t = "warm"
         THEN IF llm_ready
                THEN /\ st' = [st EXCEPT ![t] = "done"]
                     /\ pc' = pc
                ELSE /\ pc' = [pc EXCEPT ![t] = "llmwait"]
                     /\ st' = st
         ELSE /\ pc' = [pc EXCEPT ![t] = AgentResumePc]
              /\ st' = st

\* connect() returns (line 26) or synthesize_speech goes on to line 61.
Connected(t) ==
    IF t = "conn"
      THEN /\ st' = [st EXCEPT ![t] = "done"]
           /\ tts_lock' = "free"
           /\ pc' = pc
      ELSE /\ pc' = [pc EXCEPT ![t] = "write"]
           /\ tts_lock' = t
           /\ st' = st

\* tts_client.py lines 30-31: "if self._client: return".
AlreadyConnected_Never == FALSE
AlreadyConnected == tts_client # 0

\* Lines 25/54 and 30-31: the lock is acquired; _ensure_connected returns
\* at once when _client is set, else the connect loop starts.
TtsAcquire(t) ==
    /\ Running(t) /\ pc[t] = "lock" /\ ~cancel_req[t]
    /\ LockFree
    /\ IF AlreadyConnected
         THEN Connected(t)
         ELSE /\ pc' = [pc EXCEPT ![t] = "tconn"]
              /\ tts_lock' = t
              /\ st' = st
    /\ UNCHANGED <<supVars, queueVars, wsVars, convVars, sttVars, fwdVars,
                   agentVars, engVars, tool_providers, tool_instances,
                   register_log, result, n_queries, engine_tools, startup,
                   managers, objects, reasoning_engine, close_code,
                   cancel_req, shutdown_event, llm_ready, tts_client,
                   tts_next, tts_discarded, tts_req, n_connect, events,
                   synth, synth_result, n_synth, create_args, create_pc,
                   attempt, delay, outcomes, slept, n_create, preload_args,
                   preload_pc, retries>>

\* Lines 37-41: client.connect() succeeds.
TtsConnected(t, max) ==
    /\ Running(t) /\ pc[t] = "tconn" /\ ~cancel_req[t]
    /\ tts_next < max
    /\ tts_next' = tts_next + 1
    /\ tts_client' = tts_next + 1
    /\ Connected(t)
    /\ UNCHANGED <<supVars, queueVars, wsVars, convVars, sttVars, fwdVars,
                   agentVars, engVars, tool_providers, tool_instances,
                   register_log, result, n_queries, engine_tools, startup,
                   managers, objects, reasoning_engine, close_code,
                   cancel_req, shutdown_event, llm_ready, tts_discarded,
                   tts_req, n_connect, events, synth, synth_result, n_synth,
                   create_args, create_pc, attempt, delay, outcomes, slept,
                   n_create, preload_args, preload_pc, retries>>

\* Lines 42-47: the connection is refused or fails; sleep(retry_delay).
TtsConnectFailed(t) ==
    /\ Running(t) /\ pc[t] = "tconn" /\ ~cancel_req[t]
    /\ pc' = [pc EXCEPT ![t] = "tsleep"]
    /\ UNCHANGED <<supVars, queueVars, wsVars, convVars, sttVars, fwdVars,
                   agentVars, ttsVars, engVars, tool_providers,
                   tool_instances, register_log, result, n_queries,
                   engine_tools, startup, managers, objects,
                   reasoning_engine, close_code, st, cancel_req,
                   shutdown_event, llm_ready, events, synth, synth_result,
                   n_synth, create_args, create_pc, attempt, delay, outcomes,
                   slept, n_create, preload_args, preload_pc, retries>>

\* Line 35: the retry loop, without any condition.
TtsRetry(t) ==
    /\ Running(t) /\ pc[t] = "tsleep" /\ ~cancel_req[t]
    /\ pc' = [pc EXCEPT ![t] = "tconn"]
    /\ UNCHANGED <<supVars, queueVars, wsVars, convVars, sttVars, fwdVars,
                   agentVars, ttsVars, engVars, tool_providers,
                   tool_instances, register_log, result, n_queries,
                   engine_tools, startup, managers, objects,
                   reasoning_engine, close_code, st, cancel_req,
                   shutdown_event, llm_ready, events, synth, synth_result,
                   n_synth, create_args, create_pc, attempt, delay, outcomes,
                   slept, n_create, preload_args, preload_pc, retries>>

\* Lines 61-70: the Synthesize event is written.
TtsWritten(t) ==
    /\ Running(t) /\ pc[t] = "write" /\ ~cancel_req[t]
    /\ tts_req' = [tts_req EXCEPT ![t] = NoReq]
    /\ pc' = [pc EXCEPT ![t] = "read"]
    /\ UNCHANGED <<supVars, queueVars, wsVars, convVars, sttVars, fwdVars,
                   agentVars, engVars, tool_providers, tool_instances,
                   register_log, result, n_queries, engine_tools, startup,
                   managers, objects, reasoning_engine, close_code, st,
                   cancel_req, shutdown_event, llm_ready, tts_client,
                   tts_lock, tts_next, tts_discarded, n_connect, events,
                   synth, synth_result, n_synth, create_args, create_pc,
                   attempt, delay, outcomes, slept, n_create, preload_args,
                   preload_pc, retries>>

\* Lines 73-99: one event is read.
\*   start  : AudioStart, a wave writer is opened
\*   chunk  : AudioChunk, written only when a writer exists
\*   stop   : AudioStop, the loop ends
\*   error  : error event, the loop ends
TtsReadEvent(t) ==
    /\ Running(t) /\ pc[t] = "read" /\ ~cancel_req[t]
    /\ \E e \in {"start", "chunk", "stop", "error"} :
         IF e \in {"start", "chunk"}
           THEN /\ tts_req' = [tts_req EXCEPT ![t] =
                      IF e = "start"
                        THEN [@ EXCEPT !.wav_writer = TRUE]
                        ELSE [@ EXCEPT !.audio_received =
                                         @ \/ tts_req[t].wav_writer]]
                /\ UNCHANGED <<st, pc, client_output_queue, tts_lock>>
           ELSE SynthReturn(t, IF tts_req[t].audio_received
                                 THEN "audio" ELSE "none")
    /\ UNCHANGED <<supVars, wsVars, convVars, sttVars, fwdVars, agentVars,
                   engVars, tool_providers, tool_instances, register_log,
                   result, n_queries, engine_tools, startup, managers,
                   objects, reasoning_engine, close_code, cancel_req,
                   shutdown_event, binary_input_queue, text_input_queue,
                   llm_ready, tts_client, tts_next, tts_discarded, n_connect,
                   events, synth, synth_result, n_synth, create_args,
                   create_pc, attempt, delay, outcomes, slept, n_create,
                   preload_args, preload_pc, retries>>

\* Lines 74-76 (read_event returns None) and 106-108 (write_event or
\* read_event raises): close() is called and awaits disconnect().
TtsFailed(t) ==
    /\ Running(t) /\ pc[t] \in {"write", "read"} /\ ~cancel_req[t]
    /\ pc' = [pc EXCEPT ![t] = "tclose"]
    /\ UNCHANGED <<supVars, queueVars, wsVars, convVars, sttVars, fwdVars,
                   agentVars, ttsVars, engVars, tool_providers,
                   tool_instances, register_log, result, n_queries,
                   engine_tools, startup, managers, objects,
                   reasoning_engine, close_code, st, cancel_req,
                   shutdown_event, llm_ready, events, synth, synth_result,
                   n_synth, create_args, create_pc, attempt, delay, outcomes,
                   slept, n_create, preload_args, preload_pc, retries>>

\* Lines 113-120 then 77/109: _client is dropped and None is returned.
TtsClosed(t) ==
    /\ Running(t) /\ pc[t] = "tclose" /\ ~cancel_req[t]
    /\ tts_discarded' = Discard(tts_client)
    /\ tts_client' = CloseClient
    /\ SynthReturn(t, "none")
    /\ UNCHANGED <<supVars, wsVars, convVars, sttVars, fwdVars, agentVars,
                   engVars, tool_providers, tool_instances, register_log,
                   result, n_queries, engine_tools, startup, managers,
                   objects, reasoning_engine, close_code, cancel_req,
                   shutdown_event, binary_input_queue, text_input_queue,
                   llm_ready, tts_next, n_connect, events, synth,
                   synth_result, n_synth, create_args, create_pc, attempt,
                   delay, outcomes, slept, n_create, preload_args,
                   preload_pc, retries>>

\* CancelledError in connect() or _handle_llm_warmup: it is no Exception, so
\* line 106 does not catch it; "async with" releases the lock, and the
\* finally of close() (line 119) still drops _client.
TtsCallerCancelled(t) ==
    /\ t \in {"conn", "warm"}
    /\ Running(t) /\ cancel_req[t]
    /\ st' = [st EXCEPT ![t] = "cancelled"]
    /\ cancel_req' = [cancel_req EXCEPT ![t] = FALSE]
    /\ tts_lock' = Release(t)
    /\ tts_req' = [tts_req EXCEPT ![t] = NoReq]
    /\ tts_client' = IF pc[t] = "tclose" THEN CloseClient ELSE tts_client
    /\ tts_discarded' = IF pc[t] = "tclose" THEN Discard(tts_client)
                                            ELSE tts_discarded
    /\ UNCHANGED <<supVars, queueVars, wsVars, convVars, sttVars, fwdVars,
                   agentVars, engVars, tool_providers, tool_instances,
                   register_log, result, n_queries, engine_tools, startup,
                   managers, objects, reasoning_engine, close_code, pc,
                   shutdown_event, llm_ready, tts_next, n_connect, events,
                   synth, synth_result, n_synth, create_args, create_pc,
                   attempt, delay, outcomes, slept, n_create, preload_args,
                   preload_pc, retries>>

\* A caller outside a session (a test, a script) calls connect() on the
\* client: tts_client.py line 23.  One call at a time is awaited.
ConnectCall(max) ==
    /\ sup_pc = "init"
    /\ st["conn"] \in {"none", "done"}
    /\ n_connect < max
    /\ n_connect' = n_connect + 1
    /\ st' = [st EXCEPT !["conn"] = "run"]
    /\ pc' = [pc EXCEPT !["conn"] = "lock"]
    /\ UNCHANGED <<supVars, queueVars, wsVars, convVars, sttVars, fwdVars,
                   agentVars, engVars, tool_providers, tool_instances,
                   register_log, result, n_queries, engine_tools, startup,
                   managers, objects, reasoning_engine, close_code,
                   cancel_req, shutdown_event, llm_ready, tts_client,
                   tts_lock, tts_next, tts_discarded, tts_req, events, synth,
                   synth_result, n_synth, create_args, create_pc, attempt,
                   delay, outcomes, slept, n_create, preload_args,
                   preload_pc, retries>>

\* The same caller calls close(): tts_client.py lines 111-120.
CloseCall ==
    /\ sup_pc = "init"
    /\ st["conn"] = "done"
    /\ tts_client # 0
    /\ tts_discarded' = Discard(tts_client)
    /\ tts_client' = CloseClient
    /\ UNCHANGED <<supVars, taskVars, queueVars, wsVars, convVars, sttVars,
                   fwdVars, agentVars, engVars, tool_providers,
                   tool_instances, register_log, result, n_queries,
                   engine_tools, startup, managers, objects,
                   reasoning_engine, close_code, shutdown_event, llm_ready,
                   tts_lock, tts_next, tts_req, n_connect, events, synth,
                   synth_result, n_synth, create_args, create_pc, attempt,
                   delay, outcomes, slept, n_create, preload_args,
                   preload_pc, retries>>

\* ---------------------------------------------------------------------
\* STTClient.transcript_generator, run inside the _agent_loop task
\* ---------------------------------------------------------------------

GenPcs == {"top", "connect", "recv", "gclose", "sleep", "fin"}
BodyPcs == {"invoke"} \cup TtsPcs

\* stt_client.py line 47: the condition of the reconnect loop.
GenLoopCondition_Always == TRUE
GenLoopCondition == ~shutdown_event

\* _agent_loop ends (connection_manager.py lines 221-227).
AgentEnds(how) ==
    /\ st' = [st EXCEPT !["agent"] = "done"]
    /\ agent_exit' = how

\* stt_client.py lines 82-84: the finally block cancels the forwarder and
\* waits for it; with no forwarder_task there is nothing to wait for.
HasForwarder == st["fwd"] # "none"

\* Line 47-50: the loop condition; a new connection attempt starts, or the
\* generator returns and the async for of _agent_loop ends.
GenTop ==
    /\ Running("agent") /\ pc["agent"] = "top" /\ ~cancel_req["agent"]
    /\ IF GenLoopCondition
         THEN /\ pc' = [pc EXCEPT !["agent"] = "connect"]
              /\ st' = [st EXCEPT !["fwd"] = "none"]
              /\ UNCHANGED <<agent_exit, gen_state>>
         ELSE /\ AgentEnds("stream_end")
              /\ gen_state' = "closed"
              /\ pc' = pc
    /\ UNCHANGED <<supVars, queueVars, wsVars, convVars, fwdVars, ttsVars,
                   engVars, tool_providers, tool_instances, register_log,
                   result, n_queries, engine_tools, startup, managers,
                   objects, reasoning_engine, close_code, cancel_req,
                   shutdown_event, llm_ready, stt_conns, stt_fails,
                   stt_alive, stt_error, n_stt, stt_received, yielded,
                   message_str, message_kind, g_after, inflight, events,
                   synth, synth_result, n_synth, create_args, create_pc,
                   attempt, delay, outcomes, slept, n_create, preload_args,
                   preload_pc, retries>>

\* Lines 50-59: connected; the forwarder task is created; the receive loop
\* starts unless the flag is already set.
GenConnected ==
    /\ Running("agent") /\ pc["agent"] = "connect" /\ ~cancel_req["agent"]
    /\ stt_alive' = TRUE
    /\ stt_conns' = stt_conns + 1
    /\ st' = [st EXCEPT !["fwd"] = "run"]
    /\ cancel_req' = [cancel_req EXCEPT !["fwd"] = FALSE]
    /\ pc' = [pc EXCEPT !["fwd"] = "begin", !["agent"] = AgentResumePc]
    /\ fwd_chunk' = 0
    /\ UNCHANGED <<supVars, queueVars, wsVars, convVars, agentVars, ttsVars,
                   engVars, tool_providers, tool_instances, register_log,
                   result, n_queries, engine_tools, startup, managers,
                   objects, reasoning_engine, close_code, shutdown_event,
                   llm_ready, stt_fails, stt_error, n_stt, stt_received,
                   yielded, message_str, message_kind, g_after, gen_state,
                   stt_sent, events, synth, synth_result, n_synth,
                   create_args, create_pc, attempt, delay, outcomes, slept,
                   n_create, preload_args, preload_pc, retries>>

\* Lines 68-74: ConnectionRefusedError from websocket_connect.
GenConnectRefused(max) ==
    /\ Running("agent") /\ pc["agent"] = "connect" /\ ~cancel_req["agent"]
    /\ stt_fails < max
    /\ stt_fails' = stt_fails + 1
    /\ IF shutdown_event
         THEN /\ AgentEnds("stream_end")
              /\ gen_state' = "closed"
              /\ pc' = pc
         ELSE /\ pc' = [pc EXCEPT !["agent"] = "sleep"]
              /\ UNCHANGED <<st, agent_exit, gen_state>>
    /\ UNCHANGED <<supVars, queueVars, wsVars, convVars, fwdVars, ttsVars,
                   engVars, tool_providers, tool_instances, register_log,
                   result, n_queries, engine_tools, startup, managers,
                   objects, reasoning_engine, close_code, cancel_req,
                   shutdown_event, llm_ready, stt_conns, stt_alive,
                   stt_error, n_stt, stt_received, yielded, message_str,
                   message_kind, g_after, inflight, events, synth,
                   synth_result, n_synth, create_args, create_pc, attempt,
                   delay, outcomes, slept, n_create, preload_args,
                   preload_pc, retries>>

\* Lines 75-80: any other exception; the generator logs it and breaks, so
\* the async for of _agent_loop ends without an exception.
GenConnectError(max) ==
    /\ Running("agent") /\ pc["agent"] = "connect" /\ ~cancel_req["agent"]
    /\ stt_fails < max
    /\ stt_fails' = stt_fails + 1
    /\ stt_error' = TRUE
    /\ AgentEnds("stream_end")
    /\ gen_state' = "closed"
    /\ UNCHANGED <<supVars, queueVars, wsVars, convVars, fwdVars, ttsVars,
                   engVars, tool_providers, tool_instances, register_log,
                   result, n_queries, engine_tools, startup, managers,
                   objects, reasoning_engine, close_code, pc, cancel_req,
                   shutdown_event, llm_ready, stt_conns, stt_alive, n_stt,
                   stt_received, yielded, message_str, message_kind, g_after,
                   inflight, events, synth, synth_result, n_synth,
                   create_args, create_pc, attempt, delay, outcomes, slept,
                   n_create, preload_args, preload_pc, retries>>

\* The STT service or the network drops the open connection.
SttDrop(max) ==
    /\ stt_alive
    /\ stt_fails < max
    /\ stt_fails' = stt_fails + 1
    /\ stt_alive' = FALSE
    /\ UNCHANGED <<supVars, taskVars, queueVars, wsVars, convVars, fwdVars,
                   agentVars, ttsVars, engVars, tool_providers,
                   tool_instances, register_log, result, n_queries,
                   engine_tools, startup, managers, objects,
                   reasoning_engine, close_code, shutdown_event, llm_ready,
                   stt_conns, stt_error, n_stt, stt_received, yielded,
                   message_str, message_kind, g_after, gen_state, events,
                   synth, synth_result, n_synth, create_args, create_pc,
                   attempt, delay, outcomes, slept, n_create, preload_args,
                   preload_pc, retries>>

\* Line 64: what the generator yields for a received message.
YieldLog_DropEmpty(y, m, k) == IF k = "empty" THEN y ELSE Append(y, m)
YieldLog(y, m, k) == Append(y, m)

\* The generator receives only while _agent_loop is suspended in it.
AtRecv_Detached == pc["agent"] \in {"recv", "invoke"}
AtRecv == pc["agent"] = "recv"

\* stt_client.py lines 62-64 and connection_manager.py lines 199-207: a
\* message is received and yielded; _agent_loop parses it.
\*   bad   : json.loads raises, logged (line 219), next message
\*   empty : "data" is empty after strip (line 202), next message
\*   ok    : the echo is queued and agent.ainvoke is called
\* Lines 200-203: the turn runs for a message with a transcript.
HasTranscript_Always(k) == TRUE
HasTranscript(k) == k = "ok"

ReceiveMessage(max, kinds) ==
    /\ stt_alive
    /\ n_stt < max
    /\ \E k \in kinds :
         LET m == n_stt + 1 IN
         /\ n_stt' = n_stt + 1
         /\ message_str' = m
         /\ message_kind' = k
         /\ stt_received' = Append(stt_received, <<m, stt_conns>>)
         /\ yielded' = YieldLog(yielded, <<m, stt_conns>>, k)
         /\ IF HasTranscript(k)
              THEN /\ client_output_queue' =
                         Append(client_output_queue, <<"echo", m>>)
                   /\ inflight' = inflight + 1
                   /\ inv_voice' = voice
                   /\ pc' = [pc EXCEPT !["agent"] = "invoke"]
              ELSE /\ pc' = [pc EXCEPT !["agent"] = AgentResumePc]
                   /\ UNCHANGED <<client_output_queue, inflight, inv_voice>>

GenRecvMessage(max, kinds) ==
    /\ Running("agent") /\ AtRecv /\ ~cancel_req["agent"]
    /\ ReceiveMessage(max, kinds)
    /\ UNCHANGED <<supVars, wsVars, fwdVars, ttsVars, engVars,
                   tool_providers, tool_instances, register_log, result,
                   n_queries, engine_tools, startup, managers, objects,
                   reasoning_engine, close_code, st, cancel_req,
                   shutdown_event, binary_input_queue, text_input_queue,
                   llm_ready, voice, applied_voice, synth_voice, stt_conns,
                   stt_fails, stt_alive, stt_error, g_after, gen_state,
                   agent_exit, events, synth, synth_result, n_synth,
                   create_args, create_pc, attempt, delay, outcomes, slept,
                   n_create, preload_args, preload_pc, retries>>

\* stt_client.py line 62 on an interpreter older than 3.12: when the task
\* is cancelled in the loop iteration in which recv() completes,
\* asyncio.wait_for returns the message and the CancelledError is dropped;
\* the message is yielded and the turn runs.
GenRecvSwallowsCancel(max) ==
    /\ Running("agent") /\ AtRecv /\ cancel_req["agent"]
    /\ ReceiveMessage(max, {"ok"})
    /\ cancel_req' = [cancel_req EXCEPT !["agent"] = FALSE]
    /\ UNCHANGED <<supVars, wsVars, fwdVars, ttsVars, engVars,
                   tool_providers, tool_instances, register_log, result,
                   n_queries, engine_tools, startup, managers, objects,
                   reasoning_engine, close_code, st, shutdown_event,
                   binary_input_queue, text_input_queue, llm_ready, voice,
                   applied_voice, synth_voice, stt_conns, stt_fails,
                   stt_alive, stt_error, g_after, gen_state, agent_exit,
                   events, synth, synth_result, n_synth, create_args,
                   create_pc, attempt, delay, outcomes, slept, n_create,
                   preload_args, preload_pc, retries>>

\* Lines 65-66 then 59: the bounded wait times out; the flag is checked.
GenRecvTimeout ==
    /\ Running("agent") /\ pc["agent"] = "recv" /\ ~cancel_req["agent"]
    /\ stt_alive
    /\ pc' = [pc EXCEPT !["agent"] = AgentResumePc]
    /\ UNCHANGED <<supVars, queueVars, wsVars, convVars, sttVars, fwdVars,
                   agentVars, ttsVars, engVars, tool_providers,
                   tool_instances, register_log, result, n_queries,
                   engine_tools, startup, managers, objects,
                   reasoning_engine, close_code, st, cancel_req,
                   shutdown_event, llm_ready, events, synth, synth_result,
                   n_synth, create_args, create_pc, attempt, delay, outcomes,
                   slept, n_create, preload_args, preload_pc, retries>>

\* The finally block of lines 81-84 is entered with the forwarder task.
EnterFinally(after) ==
    /\ pc' = [pc EXCEPT !["agent"] = "fin"]
    /\ g_after' = after
    /\ cancel_req' = CancelAll(cancel_req, {"fwd"})

\* Lines 68-74: recv raises ConnectionClosed.
GenRecvClosed ==
    /\ Running("agent") /\ pc["agent"] = "recv" /\ ~cancel_req["agent"]
    /\ ~stt_alive
    /\ IF shutdown_event
         THEN EnterFinally("break")
         ELSE /\ pc' = [pc EXCEPT !["agent"] = "sleep"]
              /\ UNCHANGED <<g_after, cancel_req>>
    /\ UNCHANGED <<supVars, queueVars, wsVars, convVars, fwdVars, agentVars,
                   ttsVars, engVars, tool_providers, tool_instances,
                   register_log, result, n_queries, engine_tools, startup,
                   managers, objects, reasoning_engine, close_code, st,
                   shutdown_event, llm_ready, stt_conns, stt_fails,
                   stt_alive, stt_error, n_stt, stt_received, yielded,
                   message_str, message_kind, gen_state, events, synth,
                   synth_result, n_synth, create_args, create_pc, attempt,
                   delay, outcomes, slept, n_create, preload_args,
                   preload_pc, retries>>

\* Line 74 returns; the finally block runs and the loop goes on.
GenSleepDone ==
    /\ Running("agent") /\ pc["agent"] = "sleep" /\ ~cancel_req["agent"]
    /\ IF HasForwarder
         THEN EnterFinally("loop")
         ELSE /\ pc' = [pc EXCEPT !["agent"] = "top"]
              /\ UNCHANGED <<g_after, cancel_req>>
    /\ UNCHANGED <<supVars, queueVars, wsVars, convVars, fwdVars, agentVars,
                   ttsVars, engVars, tool_providers, tool_instances,
                   register_log, result, n_queries, engine_tools, startup,
                   managers, objects, reasoning_engine, close_code, st,
                   shutdown_event, llm_ready, stt_conns, stt_fails,
                   stt_alive, stt_error, n_stt, stt_received, yielded,
                   message_str, message_kind, gen_state, events, synth,
                   synth_result, n_synth, create_args, create_pc, attempt,
                   delay, outcomes, slept, n_create, preload_args,
                   preload_pc, retries>>

\* The receive loop ended on the flag; "async with" closed the connection.
GenCloseDone ==
    /\ Running("agent") /\ pc["agent"] = "gclose" /\ ~cancel_req["agent"]
    /\ stt_alive' = FALSE
    /\ EnterFinally("loop")
    /\ UNCHANGED <<supVars, queueVars, wsVars, convVars, fwdVars, agentVars,
                   ttsVars, engVars, tool_providers, tool_instances,
                   register_log, result, n_queries, engine_tools, startup,
                   managers, objects, reasoning_engine, close_code, st,
                   shutdown_event, llm_ready, stt_conns, stt_fails,
                   stt_error, n_stt, stt_received, yielded, message_str,
                   message_kind, gen_state, events, synth, synth_result,
                   n_synth, create_args, create_pc, attempt, delay, outcomes,
                   slept, n_create, preload_args, preload_pc, retries>>

\* Line 84: await asyncio.gather(forwarder_task, return_exceptions=True)
\* returns when the forwarder task is done.
ForwarderGathered_NoWait == TRUE
ForwarderGathered == ~Running("fwd")

\* Line 84: the gather of the forwarder returns; the loop continues, the
\* generator returns (break) or the pending CancelledError goes on.
GenFinDone ==
    /\ Running("agent") /\ pc["agent"] = "fin" /\ ~cancel_req["agent"]
    /\ ForwarderGathered
    /\ IF g_after = "loop"
         THEN /\ pc' = [pc EXCEPT !["agent"] = "top"]
              /\ UNCHANGED <<st, agent_exit, gen_state>>
         ELSE /\ AgentEnds(IF g_after = "break" THEN "stream_end"
                                                ELSE "cancelled")
              /\ gen_state' = "closed"
              /\ pc' = pc
    /\ g_after' = "-"
    /\ UNCHANGED <<supVars, queueVars, wsVars, convVars, fwdVars, ttsVars,
                   engVars, tool_providers, tool_instances, register_log,
                   result, n_queries, engine_tools, startup, managers,
                   objects, reasoning_engine, close_code, cancel_req,
                   shutdown_event, llm_ready, stt_conns, stt_fails,
                   stt_alive, stt_error, n_stt, stt_received, yielded,
                   message_str, message_kind, inflight, events, synth,
                   synth_result, n_synth, create_args, create_pc, attempt,
                   delay, outcomes, slept, n_create, preload_args,
                   preload_pc, retries>>

\* CancelledError raised inside the generator: no except clause of lines
\* 65-80 matches; the connection is closed and the finally block runs.
GenCancelled ==
    /\ Running("agent") /\ pc["agent"] \in GenPcs /\ cancel_req["agent"]
    /\ stt_alive' = FALSE
    /\ IF HasForwarder /\ pc["agent"] # "top"
         THEN /\ pc' = [pc EXCEPT !["agent"] = "fin"]
              /\ g_after' = "cancel"
              /\ cancel_req' = [CancelAll(cancel_req, {"fwd"})
                                  EXCEPT !["agent"] = FALSE]
              /\ UNCHANGED <<st, agent_exit, gen_state>>
         ELSE /\ AgentEnds("cancelled")
              /\ gen_state' = "closed"
              /\ cancel_req' = [cancel_req EXCEPT !["agent"] = FALSE]
              /\ UNCHANGED <<pc, g_after>>
    /\ UNCHANGED <<supVars, queueVars, wsVars, convVars, fwdVars, ttsVars,
                   engVars, tool_providers, tool_instances, register_log,
                   result, n_queries, engine_tools, startup, managers,
                   objects, reasoning_engine, close_code, shutdown_event,
                   llm_ready, stt_conns, stt_fails, stt_error, n_stt,
                   stt_received, yielded, message_str, message_kind,
                   inflight, events, synth, synth_result, n_synth,
                   create_args, create_pc, attempt, delay, outcomes, slept,
                   n_create, preload_args, preload_pc, retries>>

\* ---------------------------------------------------------------------
\* ConnectionManager._agent_loop, the body of the async for
\* ---------------------------------------------------------------------

\* agent.py line 61: self.conversation_state = final_state, whose "voice"
\* is the one the inputs were built with.
FinalStateVoice == inv_voice

\* agent.ainvoke returns (agent.py lines 61-69): conversation_state becomes
\* the final state of the call; lines 209-214 queue the reply and call
\* synthesize_speech with agent.get_voice().
AgentInvokeReturned ==
    /\ Running("agent") /\ pc["agent"] = "invoke" /\ ~cancel_req["agent"]
    /\ voice' = FinalStateVoice
    /\ synth_voice' = FinalStateVoice
    /\ inflight' = inflight - 1
    /\ client_output_queue' =
          Append(client_output_queue, <<"reply", message_str>>)
    /\ pc' = [pc EXCEPT !["agent"] = "lock"]
    /\ UNCHANGED <<supVars, wsVars, sttVars, fwdVars, ttsVars, engVars,
                   tool_providers, tool_instances, register_log, result,
                   n_queries, engine_tools, startup, managers, objects,
                   reasoning_engine, close_code, st, cancel_req,
                   shutdown_event, binary_input_queue, text_input_queue,
                   llm_ready, inv_voice, applied_voice, agent_exit, events,
                   synth, synth_result, n_synth, create_args, create_pc,
                   attempt, delay, outcomes, slept, n_create, preload_args,
                   preload_pc, retries>>

\* agent.ainvoke raises: lines 223-225 set the flag and the loop ends; the
\* generator is left suspended at its yield.
AgentInvokeFailed ==
    /\ Running("agent") /\ pc["agent"] = "invoke" /\ ~cancel_req["agent"]
    /\ inflight' = inflight - 1
    /\ shutdown_event' = TRUE
    /\ AgentEnds("error")
    /\ gen_state' = "orphan"
    /\ UNCHANGED <<supVars, queueVars, wsVars, convVars, fwdVars, ttsVars,
                   engVars, tool_providers, tool_instances, register_log,
                   result, n_queries, engine_tools, startup, managers,
                   objects, reasoning_engine, close_code, pc, cancel_req,
                   llm_ready, stt_conns, stt_fails, stt_alive, stt_error,
                   n_stt, stt_received, yielded, message_str, message_kind,
                   g_after, events, synth, synth_result, n_synth,
                   create_args, create_pc, attempt, delay, outcomes, slept,
                   n_create, preload_args, preload_pc, retries>>

\* CancelledError raised in the body (lines 221-222): the loop ends; the
\* lock is released by "async with"; the generator is left suspended.
AgentBodyCancelled ==
    /\ Running("agent") /\ pc["agent"] \in BodyPcs /\ cancel_req["agent"]
    /\ cancel_req' = [cancel_req EXCEPT !["agent"] = FALSE]
    /\ inflight' = 0
    /\ AgentEnds("cancelled")
    /\ gen_state' = "orphan"
    /\ tts_lock' = Release("agent")
    /\ tts_req' = [tts_req EXCEPT !["agent"] = NoReq]
    /\ tts_client' = IF pc["agent"] = "tclose" THEN CloseClient
                                               ELSE tts_client
    /\ tts_discarded' = IF pc["agent"] = "tclose" THEN Discard(tts_client)
                                                  ELSE tts_discarded
    /\ UNCHANGED <<supVars, queueVars, wsVars, convVars, fwdVars, engVars,
                   tool_providers, tool_instances, register_log, result,
                   n_queries, engine_tools, startup, managers, objects,
                   reasoning_engine, close_code, pc, shutdown_event,
                   llm_ready, stt_conns, stt_fails, stt_alive, stt_error,
                   n_stt, stt_received, yielded, message_str, message_kind,
                   g_after, tts_next, n_connect, events, synth, synth_result,
                   n_synth, create_args, create_pc, attempt, delay, outcomes,
                   slept, n_create, preload_args, preload_pc, retries>>

\* The event loop's asyncgen finalizer runs aclose() on the suspended
\* generator: the connection is closed and the finally block cancels the
\* forwarder.
GenAcloseBegin ==
    /\ gen_state = "orphan"
    /\ gen_state' = "closing"
    /\ stt_alive' = FALSE
    /\ cancel_req' = CancelAll(cancel_req, {"fwd"})
    /\ UNCHANGED <<supVars, queueVars, wsVars, convVars, fwdVars, agentVars,
                   ttsVars, engVars, tool_providers, tool_instances,
                   register_log, result, n_queries, engine_tools, startup,
                   managers, objects, reasoning_engine, close_code, st, pc,
                   shutdown_event, llm_ready, stt_conns, stt_fails,
                   stt_error, n_stt, stt_received, yielded, message_str,
                   message_kind, g_after, events, synth, synth_result,
                   n_synth, create_args, create_pc, attempt, delay, outcomes,
                   slept, n_create, preload_args, preload_pc, retries>>

\* Line 84 inside aclose(): the gather of the forwarder returns and the
\* generator ends.
GenAcloseDone ==
    /\ gen_state = "closing"
    /\ ForwarderGathered
    /\ gen_state' = "closed"
    /\ UNCHANGED <<supVars, taskVars, queueVars, wsVars, convVars, fwdVars,
                   agentVars, ttsVars, engVars, tool_providers,
                   tool_instances, register_log, result, n_queries,
                   engine_tools, startup, managers, objects,
                   reasoning_engine, close_code, shutdown_event, llm_ready,
                   stt_conns, stt_fails, stt_alive, stt_error, n_stt,
                   stt_received, yielded, message_str, message_kind, g_after,
                   events, synth, synth_result, n_synth, create_args,
                   create_pc, attempt, delay, outcomes, slept, n_create,
                   preload_args, preload_pc, retries>>

GenAclose ==
    \/ GenAcloseBegin
    \/ GenAcloseDone

\* ---------------------------------------------------------------------
\* STTClient._forward_audio
\* ---------------------------------------------------------------------

FwdAt(p) == Running("fwd") /\ pc["fwd"] = p /\ ~cancel_req["fwd"]

\* The loop condition of line 26.
FwdNext(p) ==
    IF shutdown_event
      THEN /\ st' = [st EXCEPT !["fwd"] = "done"]
           /\ pc' = pc
      ELSE /\ pc' = [pc EXCEPT !["fwd"] = p]
           /\ st' = st

\* Line 26, first evaluation.
ForwardAudioBegin ==
    /\ FwdAt("begin")
    /\ FwdNext("get")
    /\ UNCHANGED <<supVars, queueVars, wsVars, convVars, sttVars, fwdVars,
                   agentVars, ttsVars, engVars, tool_providers,
                   tool_instances, register_log, result, n_queries,
                   engine_tools, startup, managers, objects,
                   reasoning_engine, close_code, cancel_req, shutdown_event,
                   llm_ready, events, synth, synth_result, n_synth,
                   create_args, create_pc, attempt, delay, outcomes, slept,
                   n_create, preload_args, preload_pc, retries>>

\* Line 30: audio_queue.get() returns the oldest frame.
ForwardDequeue_Peek(q) == q
ForwardDequeue(q) == Tail(q)

ForwardAudioGet ==
    /\ FwdAt("get")
    /\ binary_input_queue # <<>>
    /\ fwd_chunk' = Head(binary_input_queue)
    /\ binary_input_queue' = ForwardDequeue(binary_input_queue)
    /\ pc' = [pc EXCEPT !["fwd"] = "send"]
    /\ UNCHANGED <<supVars, wsVars, convVars, sttVars, agentVars, ttsVars,
                   engVars, tool_providers, tool_instances, register_log,
                   result, n_queries, engine_tools, startup, managers,
                   objects, reasoning_engine, close_code, st, cancel_req,
                   shutdown_event, text_input_queue, client_output_queue,
                   llm_ready, stt_sent, events, synth, synth_result, n_synth,
                   create_args, create_pc, attempt, delay, outcomes, slept,
                   n_create, preload_args, preload_pc, retries>>

\* Lines 32-33: the bounded wait times out.
ForwardAudioTimeout ==
    /\ FwdAt("get")
    /\ binary_input_queue = <<>>
    /\ FwdNext("get")
    /\ UNCHANGED <<supVars, queueVars, wsVars, convVars, sttVars, fwdVars,
                   agentVars, ttsVars, engVars, tool_providers,
                   tool_instances, register_log, result, n_queries,
                   engine_tools, startup, managers, objects,
                   reasoning_engine, close_code, cancel_req, shutdown_event,
                   llm_ready, events, synth, synth_result, n_synth,
                   create_args, create_pc, attempt, delay, outcomes, slept,
                   n_create, preload_args, preload_pc, retries>>

\* Line 31: the frame is sent on the forwarder's connection.
ForwardAudioSent ==
    /\ FwdAt("send")
    /\ stt_alive
    /\ stt_sent' = Append(stt_sent, <<fwd_chunk, stt_conns>>)
    /\ fwd_chunk' = 0
    /\ FwdNext("get")
    /\ UNCHANGED <<supVars, queueVars, wsVars, convVars, sttVars, agentVars,
                   ttsVars, engVars, tool_providers, tool_instances,
                   register_log, result, n_queries, engine_tools, startup,
                   managers, objects, reasoning_engine, close_code,
                   cancel_req, shutdown_event, llm_ready, events, synth,
                   synth_result, n_synth, create_args, create_pc, attempt,
                   delay, outcomes, slept, n_create, preload_args,
                   preload_pc, retries>>

\* Lines 34-35: send raises ConnectionClosed; the frame is lost.
ForwardAudioClosed ==
    /\ FwdAt("send")
    /\ ~stt_alive
    /\ fwd_chunk' = 0
    /\ st' = [st EXCEPT !["fwd"] = "done"]
    /\ UNCHANGED <<supVars, queueVars, wsVars, convVars, sttVars, agentVars,
                   ttsVars, engVars, tool_providers, tool_instances,
                   register_log, result, n_queries, engine_tools, startup,
                   managers, objects, reasoning_engine, close_code, pc,
                   cancel_req, shutdown_event, llm_ready, stt_sent, events,
                   synth, synth_result, n_synth, create_args, create_pc,
                   attempt, delay, outcomes, slept, n_create, preload_args,
                   preload_pc, retries>>

\* Lines 36-37: CancelledError; a send that was under way may or may not
\* have put the frame on the wire.
ForwardAudioCancelled ==
    /\ Running("fwd") /\ cancel_req["fwd"]
    /\ st' = [st EXCEPT !["fwd"] = "done"]
    /\ cancel_req' = [cancel_req EXCEPT !["fwd"] = FALSE]
    /\ fwd_chunk' = 0
    /\ \E onWire \in BOOLEAN :
         stt_sent' = IF onWire /\ pc["fwd"] = "send" /\ stt_alive
                       THEN Append(stt_sent, <<fwd_chunk, stt_conns>>)
                       ELSE stt_sent
    /\ UNCHANGED <<supVars, queueVars, wsVars, convVars, sttVars, agentVars,
                   ttsVars, engVars, tool_providers, tool_instances,
                   register_log, result, n_queries, engine_tools, startup,
                   managers, objects, reasoning_engine, close_code, pc,
                   shutdown_event, llm_ready, events, synth, synth_result,
                   n_synth, create_args, create_pc, attempt, delay, outcomes,
                   slept, n_create, preload_args, preload_pc, retries>>

\* ---------------------------------------------------------------------
\* The session
\* ---------------------------------------------------------------------

\* handle_connection
SupStep ==
    \/ HandleConnectionStart
    \/ HandleConnectionFinally
    \/ CancelTasksGathered
    \/ HandleConnectionClosed

\* Cancellation reaching a task.
CancelStep ==
    \/ ClientReaderCancelled
    \/ ClientWriterCancelled
    \/ TextHandlerCancelled
    \/ \E t \in {"conn", "warm"} : TtsCallerCancelled(t)
    \/ GenCancelled
    \/ AgentBodyCancelled
    \/ ForwardAudioCancelled

\* _run_main_logic up to the start of the processing tasks, and its end.
MainStep ==
    \/ RunMainLogicStarted
    \/ RunMainLogicAborted
    \/ RunMainLogicStopped
    \/ HandleLlmWarmupBegin

\* A TTS call on a service that accepts and answers.
TtsCall(t, max) ==
    \/ TtsAcquire(t)
    \/ TtsConnected(t, max)
    \/ TtsWritten(t)
    \/ TtsReadEvent(t)

\* The TTS service refuses a connection or fails during a call.
TtsFailure(t) ==
    \/ TtsConnectFailed(t)
    \/ TtsRetry(t)
    \/ TtsFailed(t)
    \/ TtsClosed(t)

\* The generator on an STT service that accepts and stays up.
GenStep ==
    \/ GenTop
    \/ GenConnected
    \/ GenRecvTimeout
    \/ GenCloseDone
    \/ GenFinDone
    \/ ForwardAudioBegin
    \/ ForwardAudioTimeout

\* The STT service refuses a connection; the generator sleeps and retries.
SttRefusal(max) ==
    \/ GenConnectRefused(max)
    \/ GenSleepDone

\* The STT service or the network drops the open connection.
SttDropped(max) ==
    \/ SttDrop(max)
    \/ GenRecvClosed

\* Audio frames from the client, forwarded to the STT service.
AudioStep(max) ==
    \/ ClientReaderBytes(max)
    \/ ForwardAudioGet
    \/ ForwardAudioSent

\* Control frames from the client.
ControlStep(max, kinds) ==
    \/ ClientReaderText(max, kinds)
    \/ TextHandlerGet

\* ---------------------------------------------------------------------
\* The reasoning engine (agent/graph.py) and Agent.ainvoke (agent/agent.py)
\* ---------------------------------------------------------------------

\* The content of a message, by what json.loads makes of it:
\*   text       a string that is not JSON          (JSONDecodeError)
\*   empty      the empty string                   (JSONDecodeError)
\*   blocks     a list of content blocks, no string (TypeError)
\*   json_list  a JSON text that is not an object
\*   json_dict  a JSON object; name and parameters are its "name" and
\*              "parameters" members, "absent" when it has none
\*   result / error : the content of a ToolMessage.
Content(form, name, parameters) ==
    [form |-> form, name |-> name, parameters |-> parameters]

Plain(form) == Content(form, "absent", "absent")

\* graph.py line 73: HumanMessage(content=state["transcribed_text"]).
HumanMessage(uid, text) ==
    [kind |-> "human", uid |-> uid, content |-> Plain("text"), text |-> text,
     tool_calls |-> <<>>, tool_call_id |-> 0]

\* An AIMessage: graph.py lines 98 and 112.
AIMessage(uid, content, calls) ==
    [kind |-> "ai", uid |-> uid, content |-> content, text |-> 0,
     tool_calls |-> calls, tool_call_id |-> 0]

\* graph.py lines 105-109: ToolCall(name=..., args=..., id=...).
ToolCall(name, args, id) == [name |-> name, args |-> args, id |-> id]

\* The ToolMessage that ToolNode (graph.py line 144) makes for one call.
ToolMessage(uid, form, call) ==
    [kind |-> "tool", uid |-> uid, content |-> Plain(form), text |-> 0,
     tool_calls |-> <<>>, tool_call_id |-> call.id]

\* The update a node returns: {} or {"messages": [...]}.
NoUpdate == [has |-> FALSE, messages |-> <<>>]
Update(msgs) == [has |-> TRUE, messages |-> msgs]

\* state.py line 22: messages: Annotated[list[BaseMessage], operator.add].
\* The value a node returns for "messages" is added to the list held.
AddMessages(old, upd) == IF upd.has THEN old \o upd.messages ELSE old

Last(s) == s[Len(s)]

\* messages[-n:]
Newest(s, n) == IF Len(s) > n THEN SubSeq(s, Len(s) - n + 1, Len(s)) ELSE s

\* graph.py lines 35-46.
prune_messages(msgs) ==
    IF Len(msgs) > MESSAGE_PRUNING_LIMIT
    THEN Update(Newest(msgs, MESSAGE_PRUNING_LIMIT))
    ELSE NoUpdate

\* graph.py line 70: isinstance(last_message, ToolMessage), last_message
\* being None for an empty history.
LastIsToolMessage_Never(msgs) == FALSE
LastIsToolMessage(msgs) == Len(msgs) > 0 /\ Last(msgs).kind = "tool"

\* graph.py lines 64-74.
prepare_input(msgs, text, uid) ==
    IF ~LastIsToolMessage(msgs)
    THEN Update(<<HumanMessage(uid, text)>>)
    ELSE NoUpdate

\* json.loads(response.content): what it raises or the kind of value.
JsonLoads(c) ==
    CASE c.form \in {"text", "empty"} -> "JSONDecodeError"
      [] c.form = "blocks" -> "TypeError"
      [] c.form = "json_list" -> "list"
      [] c.form = "json_dict" -> "dict"

\* graph.py line 104: isinstance(content_json, dict) and "name" in it.
IsJsonToolCall_Never(c) == FALSE
IsJsonToolCall(c) == JsonLoads(c) = "dict" /\ c.name # "absent"

\* graph.py line 107: content_json.get("parameters", {}).
GetParameters(c) == IF c.parameters = "absent" THEN "{}" ELSE c.parameters

\* graph.py lines 93-126: what call_model returns for the model's response;
\* id is the uuid4 of line 108.
call_model(resp, id) ==
    IF Len(resp.tool_calls) > 0
    THEN Update(<<resp>>)
    ELSE IF IsJsonToolCall(resp.content)
         THEN Update(<<AIMessage(resp.uid, Plain("empty"),
                       <<ToolCall(resp.content.name,
                                  GetParameters(resp.content), id)>>)>>)
         ELSE Update(<<resp>>)

\* graph.py lines 132-136.
should_continue_Never(msgs) == "end"
should_continue(msgs) ==
    IF Len(Last(msgs).tool_calls) > 0 THEN "execute_tools" ELSE "end"

\* The tools given to ToolNode and bound to the model (graph.py 57-58),
\* and the arguments their schemas accept.
Tools == {"T"}
ValidArgs == {"A", "{}"}

\* ToolNode: the tool of a call is run when it is registered and the
\* arguments pass its schema.
ToolRuns_Always(call) == TRUE
ToolRuns(call) == call.name \in Tools /\ call.args \in ValidArgs

ToolMessages_None(calls, uid) == <<>>
\* ToolNode: one ToolMessage per call of the last message, an error text
\* for a call that names no tool or whose arguments fail validation.
ToolMessages(calls, uid) ==
    [i \in 1..Len(calls) |->
        ToolMessage(uid + i - 1,
                    IF ToolRuns(calls[i]) THEN "result" ELSE "error",
                    calls[i])]

RECURSIVE RunCalls(_)
\* The calls of a list that ToolNode runs, in order.
RunCalls(calls) ==
    IF calls = <<>> THEN <<>>
    ELSE (IF ToolRuns(Head(calls)) THEN <<Head(calls)>> ELSE <<>>)
         \o RunCalls(Tail(calls))

\* The responses of the model: with structured tool calls (one or two),
\* or with a content only.  uid numbers the message, uid+1 and uid+2 the
\* calls (the ids the model library gives them).
CallResponses(uid) ==
    {AIMessage(uid, Plain("empty"), <<ToolCall(n, a, uid + 1)>>) :
        n \in {"T", "U"}, a \in {"A", "B"}}
    \cup {AIMessage(uid, Plain("empty"),
                    <<ToolCall("T", "A", uid + 1), ToolCall("T", "{}", uid + 2)>>)}

JsonCallResponses(uid) ==
    {AIMessage(uid, Content("json_dict", "T", p), <<>>) : p \in {"absent", "A"}}

FinalResponses(uid) ==
    {AIMessage(uid, c, <<>>) :
        c \in {Plain("text"), Plain("blocks"), Plain("json_list"),
               Plain("json_dict"), Content("json_dict", "absent", "A")}}

AllResponses(uid) ==
    CallResponses(uid) \cup JsonCallResponses(uid) \cup FinalResponses(uid)

\* A model that asks for tools at most once a turn and in structured form.
FirstResponses(uid) ==
    {AIMessage(uid, Plain("text"), <<>>),
     AIMessage(uid, Plain("empty"), <<ToolCall("T", "A", uid + 1)>>),
     AIMessage(uid, Plain("empty"),
               <<ToolCall("T", "A", uid + 1), ToolCall("T", "{}", uid + 2)>>)}

TextResponses(uid) == {AIMessage(uid, Plain("text"), <<>>)}

\* A model that may ask for a tool again after every result.
LoopResponses(uid) ==
    {AIMessage(uid, Plain("text"), <<>>),
     AIMessage(uid, Plain("empty"), <<ToolCall("T", "A", uid + 1)>>)}

\* What a model may answer: anything, or a structured request for tools
\* once a turn and a text after the tools have answered.
Responses(model, uid) ==
    IF model = "any" THEN AllResponses(uid)
    ELSE IF model = "loop" THEN LoopResponses(uid)
    ELSE IF n_exec = 0 THEN FirstResponses(uid) ELSE TextResponses(uid)

\* The response leads to execute_tools.
AsksTools(resp) == Len(resp.tool_calls) > 0 \/ IsJsonToolCall(resp.content)

\* graph.py line 161 and agent.py line 61: the graph is compiled and
\* invoked without a config, so the graph runtime (LangGraph) applies its
\* default recursion limit: a run may take 25 steps, a node being one
\* step, and ends with GraphRecursionError when another is due.
RecursionLimit == 25

\* The nodes that have run in this turn: prepare_input, prune, then the
\* calls of the model and the runs of the tools.
SuperSteps ==
    CASE eng_pc \in {"idle", "prepare_input"} -> 0
      [] eng_pc = "prune" -> 1
      [] OTHER -> 2 + n_invoke + n_exec

WithinLimit_Always == TRUE
WithinLimit == SuperSteps < RecursionLimit

\* agent.py lines 50-59: ainvoke builds the inputs from conversation_state
\* and starts the graph at its entry point, prepare_input (graph.py 147).
AgentAinvoke(max) ==
    /\ eng_pc = "idle"
    /\ n_turns < max
    /\ n_turns' = n_turns + 1
    /\ transcribed_text' = n_turns + 1
    /\ messages' = AddMessages(<<>>, Update(conversation_state))
    /\ n_invoke' = 0
    /\ n_exec' = 0
    /\ tool_log' = <<>>
    /\ model_input' = <<>>
    /\ response' = NoResponse
    /\ eng_pc' = "prepare_input"
    /\ UNCHANGED <<supVars, taskVars, queueVars, wsVars, convVars, sttVars,
                   fwdVars, agentVars, ttsVars, tool_providers,
                   tool_instances, register_log, result, n_queries,
                   engine_tools, startup, managers, objects,
                   reasoning_engine, close_code, shutdown_event, llm_ready,
                   conversation_state, next_uid, llm_response, events, synth,
                   synth_result, n_synth, create_args, create_pc, attempt,
                   delay, outcomes, slept, n_create, preload_args,
                   preload_pc, retries>>

\* graph.py lines 64-74 and the edge of line 148.
PrepareInput ==
    /\ eng_pc = "prepare_input"
    /\ messages' = AddMessages(messages,
                       prepare_input(messages, transcribed_text, next_uid))
    /\ next_uid' = next_uid + 1
    /\ eng_pc' = "prune"
    /\ UNCHANGED <<supVars, taskVars, queueVars, wsVars, convVars, sttVars,
                   fwdVars, agentVars, ttsVars, tool_providers,
                   tool_instances, register_log, result, n_queries,
                   engine_tools, startup, managers, objects,
                   reasoning_engine, close_code, shutdown_event, llm_ready,
                   conversation_state, transcribed_text, model_input,
                   response, n_turns, n_invoke, n_exec, tool_log,
                   llm_response, events, synth, synth_result, n_synth,
                   create_args, create_pc, attempt, delay, outcomes, slept,
                   n_create, preload_args, preload_pc, retries>>

\* graph.py lines 35-46 and the edge of line 149.
Prune ==
    /\ eng_pc = "prune"
    /\ messages' = AddMessages(messages, prune_messages(messages))
    /\ eng_pc' = "agent"
    /\ UNCHANGED <<supVars, taskVars, queueVars, wsVars, convVars, sttVars,
                   fwdVars, agentVars, ttsVars, tool_providers,
                   tool_instances, register_log, result, n_queries,
                   engine_tools, startup, managers, objects,
                   reasoning_engine, close_code, shutdown_event, llm_ready,
                   conversation_state, transcribed_text, model_input,
                   response, n_turns, n_invoke, n_exec, tool_log, next_uid,
                   llm_response, events, synth, synth_result, n_synth,
                   create_args, create_pc, attempt, delay, outcomes, slept,
                   n_create, preload_args, preload_pc, retries>>

\* graph.py lines 76-126: the model is called with state["messages"] and
\* its response, or the tool call made of it, is added.  The model asks
\* for tools in fewer than 'max' calls of a turn.
CallModel(model, max) ==
    /\ eng_pc = "agent"
    /\ WithinLimit
    /\ \E resp \in Responses(model, next_uid) :
        /\ AsksTools(resp) => n_invoke + 1 < max
        /\ response' = resp
        /\ messages' = AddMessages(messages, call_model(resp, next_uid + 1))
    /\ model_input' = messages
    /\ next_uid' = next_uid + 3
    /\ n_invoke' = n_invoke + 1
    /\ eng_pc' = "should_continue"
    /\ UNCHANGED <<supVars, taskVars, queueVars, wsVars, convVars, sttVars,
                   fwdVars, agentVars, ttsVars, tool_providers,
                   tool_instances, register_log, result, n_queries,
                   engine_tools, startup, managers, objects,
                   reasoning_engine, close_code, shutdown_event, llm_ready,
                   conversation_state, transcribed_text, n_turns, n_exec,
                   tool_log, llm_response, events, synth, synth_result,
                   n_synth, create_args, create_pc, attempt, delay, outcomes,
                   slept, n_create, preload_args, preload_pc, retries>>

\* graph.py lines 128-136 and the conditional edges of lines 150-158.
ShouldContinue ==
    /\ eng_pc = "should_continue"
    /\ eng_pc' = should_continue(messages)
    /\ UNCHANGED <<supVars, taskVars, queueVars, wsVars, convVars, sttVars,
                   fwdVars, agentVars, ttsVars, tool_providers,
                   tool_instances, register_log, result, n_queries,
                   engine_tools, startup, managers, objects,
                   reasoning_engine, close_code, shutdown_event, llm_ready,
                   messages, conversation_state, transcribed_text,
                   model_input, response, n_turns, n_invoke, n_exec,
                   tool_log, next_uid, llm_response, events, synth,
                   synth_result, n_synth, create_args, create_pc, attempt,
                   delay, outcomes, slept, n_create, preload_args,
                   preload_pc, retries>>

\* graph.py lines 144 and 160: ToolNode(tools) and the edge back to agent.
ExecuteTools ==
    /\ eng_pc = "execute_tools"
    /\ WithinLimit
    /\ messages' = AddMessages(messages,
                       Update(ToolMessages(Last(messages).tool_calls, next_uid)))
    /\ tool_log' = tool_log \o RunCalls(Last(messages).tool_calls)
    /\ next_uid' = next_uid + Len(Last(messages).tool_calls)
    /\ n_exec' = n_exec + 1
    /\ eng_pc' = "agent"
    /\ UNCHANGED <<supVars, taskVars, queueVars, wsVars, convVars, sttVars,
                   fwdVars, agentVars, ttsVars, tool_providers,
                   tool_instances, register_log, result, n_queries,
                   engine_tools, startup, managers, objects,
                   reasoning_engine, close_code, shutdown_event, llm_ready,
                   conversation_state, transcribed_text, model_input,
                   response, n_turns, n_invoke, llm_response, events, synth,
                   synth_result, n_synth, create_args, create_pc, attempt,
                   delay, outcomes, slept, n_create, preload_args,
                   preload_pc, retries>>

\* agent.py line 61: reasoning_engine.ainvoke raises GraphRecursionError
\* when a node is due after the last step the limit allows; line 62 is not
\* reached and conversation_state stays as it was.
GraphRecursionError ==
    /\ eng_pc \in {"agent", "execute_tools"}
    /\ ~WithinLimit
    /\ eng_pc' = "idle"
    /\ UNCHANGED <<supVars, taskVars, queueVars, wsVars, convVars, sttVars,
                   fwdVars, agentVars, ttsVars, tool_providers,
                   tool_instances, register_log, result, n_queries,
                   engine_tools, startup, managers, objects,
                   reasoning_engine, close_code, shutdown_event, llm_ready,
                   messages, conversation_state, transcribed_text,
                   model_input, response, n_turns, n_invoke, n_exec,
                   tool_log, next_uid, llm_response, events, synth,
                   synth_result, n_synth, create_args, create_pc, attempt,
                   delay, outcomes, slept, n_create, preload_args,
                   preload_pc, retries>>

\* agent.py lines 61-62: when reasoning_engine.ainvoke raises, the
\* assignment of line 62 is not reached.
StoredAfterRaise_Partial == messages
StoredAfterRaise == conversation_state

\* graph.py lines 85-89: the call of the model raises (the model server is
\* unreachable or answers with an error); no node catches it and it leaves
\* reasoning_engine.ainvoke at agent.py line 61.
CallModelRaises ==
    /\ eng_pc = "agent"
    /\ conversation_state' = StoredAfterRaise
    /\ eng_pc' = "idle"
    /\ UNCHANGED <<supVars, taskVars, queueVars, wsVars, convVars, sttVars,
                   fwdVars, agentVars, ttsVars, tool_providers,
                   tool_instances, register_log, result, n_queries,
                   engine_tools, startup, managers, objects,
                   reasoning_engine, close_code, shutdown_event, llm_ready,
                   messages, transcribed_text, model_input, response,
                   n_turns, n_invoke, n_exec, tool_log, next_uid,
                   llm_response, events, synth, synth_result, n_synth,
                   create_args, create_pc, attempt, delay, outcomes, slept,
                   n_create, preload_args, preload_pc, retries>>

\* agent.py lines 60-69: the final state is stored and the content of its
\* last message returned.
AinvokeReturn ==
    /\ eng_pc = "end"
    /\ conversation_state' = messages
    /\ llm_response' = IF Len(messages) > 0 THEN Last(messages).content
                       ELSE Plain("empty")
    /\ eng_pc' = "idle"
    /\ UNCHANGED <<supVars, taskVars, queueVars, wsVars, convVars, sttVars,
                   fwdVars, agentVars, ttsVars, tool_providers,
                   tool_instances, register_log, result, n_queries,
                   engine_tools, startup, managers, objects,
                   reasoning_engine, close_code, shutdown_event, llm_ready,
                   messages, transcribed_text, model_input, response,
                   n_turns, n_invoke, n_exec, tool_log, next_uid, events,
                   synth, synth_result, n_synth, create_args, create_pc,
                   attempt, delay, outcomes, slept, n_create, preload_args,
                   preload_pc, retries>>

\* ---------------------------------------------------------------------
\* ToolRegistry (tools/registry.py) and the start of the services
\* ---------------------------------------------------------------------

Range(q) == {q[i] : i \in 1..Len(q)}

\* Line 39: provider_class not in self._tool_providers
NotRegistered_Always(provs, c) == TRUE
NotRegistered(provs, c) == c \notin Range(provs)

\* Lines 37-40.
RegisterProvider(max) ==
    /\ Len(register_log) < max
    /\ \E c \in Providers :
         /\ register_log' = Append(register_log, c)
         /\ tool_providers' = IF NotRegistered(tool_providers, c)
                                THEN Append(tool_providers, c)
                                ELSE tool_providers
    /\ UNCHANGED <<supVars, taskVars, queueVars, wsVars, convVars, sttVars,
                   fwdVars, agentVars, ttsVars, engVars, tool_instances,
                   result, n_queries, engine_tools, startup, managers,
                   objects, reasoning_engine, close_code, shutdown_event,
                   llm_ready, events, synth, synth_result, n_synth,
                   create_args, create_pc, attempt, delay, outcomes, slept,
                   n_create, preload_args, preload_pc, retries>>

\* Line 47: provider_class in self._tool_instances
Cached_Never(inst, c) == FALSE
Cached(inst, c) == inst[c] # 0

\* Lines 47-58 when the constructor returns: the instance is made once and
\* kept.
GetProviderInstance(inst, c) ==
    IF Cached(inst, c) THEN inst ELSE [inst EXCEPT ![c] = @ + 1]

\* Lines 67-69: hasattr(provider_instance, 'get_tools') and get_tools().
ToolsOf(c) ==
    CASE c = "P" -> <<"p1", "p2">>
      [] c = "Q" -> <<"q1">>
      [] OTHER -> <<>>

\* Line 56 raises: nothing catches it in _get_provider_instance or in
\* get_all_tools, the tools collected so far are dropped.
Propagate_Partial(all_tools) == [raised |-> FALSE, value |-> all_tools]
Propagate(all_tools) == [raised |-> TRUE, value |-> <<>>]

\* Lines 64-71: the loop of get_all_tools over the providers left, with
\* the constructors of the classes in fails raising.
RECURSIVE Collect(_, _, _, _)
Collect(provs, inst, fails, all_tools) ==
    IF provs = <<>>
      THEN [raised |-> FALSE, value |-> all_tools, instances |-> inst]
      ELSE LET c == Head(provs) IN
           IF ~Cached(inst, c) /\ c \in fails
             THEN [raised |-> Propagate(all_tools).raised,
                   value |-> Propagate(all_tools).value,
                   instances |-> inst]
             ELSE Collect(Tail(provs), GetProviderInstance(inst, c), fails,
                          all_tools \o ToolsOf(c))

get_all_tools(fails) == Collect(tool_providers, tool_instances, fails, <<>>)

\* Lines 60-71, called by anyone.
GetAllTools(max) ==
    /\ n_queries < max
    /\ n_queries' = n_queries + 1
    /\ \E fails \in SUBSET Providers :
         LET r == get_all_tools(fails) IN
         /\ tool_instances' = r.instances
         /\ result' = [call |-> "get_all_tools", arg |-> "none",
                       raised |-> r.raised, value |-> r.value]
    /\ UNCHANGED <<supVars, taskVars, queueVars, wsVars, convVars, sttVars,
                   fwdVars, agentVars, ttsVars, engVars, tool_providers,
                   register_log, engine_tools, startup, managers, objects,
                   reasoning_engine, close_code, shutdown_event, llm_ready,
                   events, synth, synth_result, n_synth, create_args,
                   create_pc, attempt, delay, outcomes, slept, n_create,
                   preload_args, preload_pc, retries>>

\* Lines 73-75, for any class, registered or not.
GetToolProvider(max) ==
    /\ n_queries < max
    /\ n_queries' = n_queries + 1
    /\ \E c \in Providers, fail \in BOOLEAN :
         IF fail /\ ~Cached(tool_instances, c)
           THEN /\ result' = [call |-> "get_tool_provider", arg |-> c,
                              raised |-> TRUE, value |-> <<>>]
                /\ tool_instances' = tool_instances
           ELSE /\ tool_instances' = GetProviderInstance(tool_instances, c)
                /\ result' = [call |-> "get_tool_provider", arg |-> c,
                              raised |-> FALSE,
                              value |-> <<c, tool_instances'[c]>>]
    /\ UNCHANGED <<supVars, taskVars, queueVars, wsVars, convVars, sttVars,
                   fwdVars, agentVars, ttsVars, engVars, tool_providers,
                   register_log, engine_tools, startup, managers, objects,
                   reasoning_engine, close_code, shutdown_event, llm_ready,
                   events, synth, synth_result, n_synth, create_args,
                   create_pc, attempt, delay, outcomes, slept, n_create,
                   preload_args, preload_pc, retries>>

\* agent/graph.py lines 50-60 and 161 inside AppServices.create
\* (app_services.py lines 72-91): the tools of the registry and
\* get_current_datetime are bound to the model and the graph is compiled,
\* or the exception of get_all_tools leaves create.
CreateReasoningEngine ==
    /\ startup = "init"
    /\ \E fails \in SUBSET Providers :
         LET r == get_all_tools(fails) IN
         /\ tool_instances' = r.instances
         /\ result' = [call |-> "create_reasoning_engine", arg |-> "none",
                       raised |-> r.raised, value |-> r.value]
         /\ IF r.raised
              THEN /\ startup' = "aborted"
                   /\ engine_tools' = engine_tools
              ELSE /\ startup' = "ready"
                   /\ engine_tools' = Append(r.value, "get_current_datetime")
    /\ UNCHANGED <<supVars, taskVars, queueVars, wsVars, convVars, sttVars,
                   fwdVars, agentVars, ttsVars, engVars, tool_providers,
                   register_log, n_queries, managers, objects,
                   reasoning_engine, close_code, shutdown_event, llm_ready,
                   events, synth, synth_result, n_synth, create_args,
                   create_pc, attempt, delay, outcomes, slept, n_create,
                   preload_args, preload_pc, retries>>

\* ---------------------------------------------------------------------
\* Two connections, each with its ConnectionManager
\* ---------------------------------------------------------------------

\* Lines 38-48: __init__ creates a TTSClient, an Agent, the queues and the
\* Event; n objects exist already.
OwnObjects_SharedEvent(n) ==
    [tts_client |-> n + 1, agent |-> n + 2, text_input_queue |-> n + 3,
     client_output_queue |-> n + 4, shutdown_event |-> 5]
OwnObjects(n) ==
    [tts_client |-> n + 1, agent |-> n + 2, text_input_queue |-> n + 3,
     client_output_queue |-> n + 4, shutdown_event |-> n + 5]

\* TTSClient._client = None (tts_client.py line 20), conversation_state
\* with the default voice (agent.py lines 23-29), Queue(), Queue(), Event().
NewObjects == <<0, DefaultVoice, <<>>, <<>>, FALSE>>

Field(s, f) == objects[managers[s].refs[f]]
SetField(objs, s, f, v) == [objs EXCEPT ![managers[s].refs[f]] = v]

SessionRuns(s) == managers[s].state = "run" /\ managers[s].tasks = "run"

\* main.py line 129: ConnectionManager(...)
NewConnectionManager(s) ==
    /\ managers[s].state = "none"
    /\ managers' = [managers EXCEPT
                      ![s] = [state |-> "init", tasks |-> "none",
                              n_text |-> 0,
                              refs |-> OwnObjects(Len(objects))]]
    /\ objects' = objects \o NewObjects
    /\ UNCHANGED <<supVars, taskVars, queueVars, wsVars, convVars, sttVars,
                   fwdVars, agentVars, ttsVars, engVars, tool_providers,
                   tool_instances, register_log, result, n_queries,
                   engine_tools, startup, reasoning_engine, close_code,
                   shutdown_event, llm_ready, events, synth, synth_result,
                   n_synth, create_args, create_pc, attempt, delay, outcomes,
                   slept, n_create, preload_args, preload_pc, retries>>

\* Lines 59-63: handle_connection creates the tasks.
SessionStart(s) ==
    /\ managers[s].state = "init"
    /\ managers' = [managers EXCEPT ![s].state = "run", ![s].tasks = "run"]
    /\ UNCHANGED <<supVars, taskVars, queueVars, wsVars, convVars, sttVars,
                   fwdVars, agentVars, ttsVars, engVars, tool_providers,
                   tool_instances, register_log, result, n_queries,
                   engine_tools, startup, objects, reasoning_engine,
                   close_code, shutdown_event, llm_ready, events, synth,
                   synth_result, n_synth, create_args, create_pc, attempt,
                   delay, outcomes, slept, n_create, preload_args,
                   preload_pc, retries>>

\* Lines 132-137: the reader queues a text frame.
SessionTextFrame(s, max) ==
    /\ SessionRuns(s) /\ ~Field(s, "shutdown_event")
    /\ managers[s].n_text < max
    /\ managers' = [managers EXCEPT ![s].n_text = @ + 1]
    /\ objects' = SetField(objects, s, "text_input_queue",
                           Append(Field(s, "text_input_queue"), "voice"))
    /\ UNCHANGED <<supVars, taskVars, queueVars, wsVars, convVars, sttVars,
                   fwdVars, agentVars, ttsVars, engVars, tool_providers,
                   tool_instances, register_log, result, n_queries,
                   engine_tools, startup, reasoning_engine, close_code,
                   shutdown_event, llm_ready, events, synth, synth_result,
                   n_synth, create_args, create_pc, attempt, delay, outcomes,
                   slept, n_create, preload_args, preload_pc, retries>>

\* Lines 173-179: the text handler takes the frame and sets the voice.
SessionSetVoice(s) ==
    /\ SessionRuns(s)
    /\ Field(s, "text_input_queue") # <<>>
    /\ objects' = SetField(SetField(objects, s, "text_input_queue",
                                    Tail(Field(s, "text_input_queue"))),
                           s, "agent", "vb")
    /\ UNCHANGED <<supVars, taskVars, queueVars, wsVars, convVars, sttVars,
                   fwdVars, agentVars, ttsVars, engVars, tool_providers,
                   tool_instances, register_log, result, n_queries,
                   engine_tools, startup, managers, reasoning_engine,
                   close_code, shutdown_event, llm_ready, events, synth,
                   synth_result, n_synth, create_args, create_pc, attempt,
                   delay, outcomes, slept, n_create, preload_args,
                   preload_pc, retries>>

\* tts_client.py lines 37-39: the session's TTS client connects.
SessionTtsConnect(s) ==
    /\ SessionRuns(s)
    /\ Field(s, "tts_client") = 0
    /\ objects' = SetField(objects, s, "tts_client", 1)
    /\ UNCHANGED <<supVars, taskVars, queueVars, wsVars, convVars, sttVars,
                   fwdVars, agentVars, ttsVars, engVars, tool_providers,
                   tool_instances, register_log, result, n_queries,
                   engine_tools, startup, managers, reasoning_engine,
                   close_code, shutdown_event, llm_ready, events, synth,
                   synth_result, n_synth, create_args, create_pc, attempt,
                   delay, outcomes, slept, n_create, preload_args,
                   preload_pc, retries>>

\* Lines 205-210: the agent loop queues an item for the client.
SessionReply(s, max) ==
    /\ SessionRuns(s) /\ ~Field(s, "shutdown_event")
    /\ Len(Field(s, "client_output_queue")) < max
    /\ objects' = SetField(objects, s, "client_output_queue",
                           Append(Field(s, "client_output_queue"), "reply"))
    /\ UNCHANGED <<supVars, taskVars, queueVars, wsVars, convVars, sttVars,
                   fwdVars, agentVars, ttsVars, engVars, tool_providers,
                   tool_instances, register_log, result, n_queries,
                   engine_tools, startup, managers, reasoning_engine,
                   close_code, shutdown_event, llm_ready, events, synth,
                   synth_result, n_synth, create_args, create_pc, attempt,
                   delay, outcomes, slept, n_create, preload_args,
                   preload_pc, retries>>

\* Lines 146-148, 164-166, 187-189, 222-224: a duty fails or ends and sets
\* the flag.
SessionDutyFails(s) ==
    /\ SessionRuns(s) /\ ~Field(s, "shutdown_event")
    /\ objects' = SetField(objects, s, "shutdown_event", TRUE)
    /\ UNCHANGED <<supVars, taskVars, queueVars, wsVars, convVars, sttVars,
                   fwdVars, agentVars, ttsVars, engVars, tool_providers,
                   tool_instances, register_log, result, n_queries,
                   engine_tools, startup, managers, reasoning_engine,
                   close_code, shutdown_event, llm_ready, events, synth,
                   synth_result, n_synth, create_args, create_pc, attempt,
                   delay, outcomes, slept, n_create, preload_args,
                   preload_pc, retries>>

\* Lines 73-75: the flag is set and every task is cancelled.
SessionFinally(s) ==
    /\ SessionRuns(s) /\ Field(s, "shutdown_event")
    /\ objects' = SetField(objects, s, "shutdown_event", TRUE)
    /\ managers' = [managers EXCEPT ![s].state = "close",
                                    ![s].tasks = "cancelled"]
    /\ UNCHANGED <<supVars, taskVars, queueVars, wsVars, convVars, sttVars,
                   fwdVars, agentVars, ttsVars, engVars, tool_providers,
                   tool_instances, register_log, result, n_queries,
                   engine_tools, startup, reasoning_engine, close_code,
                   shutdown_event, llm_ready, events, synth, synth_result,
                   n_synth, create_args, create_pc, attempt, delay, outcomes,
                   slept, n_create, preload_args, preload_pc, retries>>

\* Line 76: tts_client.close()
SessionClosed(s) ==
    /\ managers[s].state = "close"
    /\ objects' = SetField(objects, s, "tts_client", 0)
    /\ managers' = [managers EXCEPT ![s].state = "returned"]
    /\ UNCHANGED <<supVars, taskVars, queueVars, wsVars, convVars, sttVars,
                   fwdVars, agentVars, ttsVars, engVars, tool_providers,
                   tool_instances, register_log, result, n_queries,
                   engine_tools, startup, reasoning_engine, close_code,
                   shutdown_event, llm_ready, events, synth, synth_result,
                   n_synth, create_args, create_pc, attempt, delay, outcomes,
                   slept, n_create, preload_args, preload_pc, retries>>

\* ---------------------------------------------------------------------
\* Scenarios
\* ---------------------------------------------------------------------

Init == InitSession(BOOLEAN)

\* Supervision: a silent client that may disconnect, a transport that may
\* fail, an STT service that may refuse a connection or fail unexpectedly, a
\* TTS service that may refuse and fail, a reasoning engine that may raise.
Next ==
    \/ SupStep
    \/ CancelStep
    \/ MainStep
    \/ HandleLlmWarmupReady
    \/ LlmReady
    \/ ClientReaderStop
    \/ ClientWriterSent
    \/ ClientWriterSendFail
    \/ TextHandlerTimeout
    \/ \E t \in TtsCallers : TtsCall(t, SupTtsConns)
    \/ \E t \in TtsCallers : TtsFailure(t)
    \/ GenStep
    \/ SttRefusal(SupSttFails)
    \/ GenConnectError(SupSttFails)
    \/ GenRecvMessage(SupMsgs, {"ok"})
    \/ AgentInvokeReturned
    \/ AgentInvokeFailed
    \/ GenAclose

Spec == Init /\ [][Next]_vars

\* Streaming: the LLM is warm, the client is silent, the STT service sends
\* transcripts and may refuse or drop the connection.
InitStt == InitSession({TRUE})

NextStt ==
    \/ SupStep
    \/ CancelStep
    \/ MainStep
    \/ ClientReaderStop
    \/ TextHandlerTimeout
    \/ \E t \in TtsCallers : TtsCall(t, SttTtsConns)
    \/ GenStep
    \/ SttRefusal(SttFails)
    \/ SttDropped(SttFails)
    \/ GenRecvMessage(SttMsgs, {"ok", "empty"})
    \/ AgentInvokeReturned
    \/ ClientWriterSendFail
    \/ GenAclose

SpecStt == InitStt /\ [][NextStt]_vars

\* Audio: the LLM is warm, the client streams audio, the STT service takes
\* the frames, sends nothing back and may refuse or drop the connection.
NextAudio ==
    \/ SupStep
    \/ ClientWriterCancelled
    \/ TextHandlerCancelled
    \/ TtsCallerCancelled("conn")
    \/ GenCancelled
    \/ ForwardAudioCancelled
    \/ MainStep
    \/ ClientReaderStop
    \/ TextHandlerTimeout
    \/ TtsAcquire("conn")
    \/ TtsConnected("conn", AudTtsConns)
    \/ GenStep
    \/ SttRefusal(AudFails)
    \/ SttDropped(AudFails)
    \/ AudioStep(AudAudio)
    \/ ForwardAudioClosed

SpecAudio == InitStt /\ [][NextAudio]_vars

\* Liveness: the supervision scenario with a client that sends a control
\* frame the handler cannot process, under the fairness asyncio gives: every
\* task that can take a step is scheduled, every cancellation is delivered,
\* every bounded wait ends, every call to a service returns or fails.  The
\* client's frames and disconnect and the outcome of a call are not forced.
NextFair ==
    \/ SupStep
    \/ CancelStep
    \/ MainStep
    \/ HandleLlmWarmupReady
    \/ LlmReady
    \/ ClientReaderStop
    \/ ClientWriterSent
    \/ ControlStep(FairTexts, {"fatal"})
    \/ TextHandlerTimeout
    \/ \E t \in TtsCallers : TtsCall(t, FairTtsConns)
    \/ \E t \in TtsCallers : TtsFailure(t)
    \/ GenStep
    \/ GenConnectError(FairSttFails)
    \/ GenRecvMessage(FairMsgs, {"ok"})
    \/ AgentInvokeReturned
    \/ GenAclose

Fairness ==
    /\ WF_vars(SupStep)
    /\ WF_vars(CancelStep)
    /\ WF_vars(MainStep \/ HandleLlmWarmupReady)
    /\ WF_vars(LlmReady)
    /\ WF_vars(ClientWriterSent)
    /\ WF_vars(TextHandlerGet \/ TextHandlerTimeout)
    /\ \A t \in TtsCallers :
         WF_vars(TtsCall(t, FairTtsConns) \/ TtsFailure(t))
    /\ WF_vars(GenStep \/ GenConnectError(FairSttFails))
    /\ WF_vars(AgentInvokeReturned)
    /\ WF_vars(GenAclose)

FairSpec == Init /\ [][NextFair]_vars /\ Fairness

\* The liveness scenario on an interpreter whose wait_for may drop a
\* cancellation.
NextSwallow ==
    \/ NextFair
    \/ GenRecvSwallowsCancel(FairMsgs)

FairSpecSwallow == Init /\ [][NextSwallow]_vars /\ Fairness

\* The registry while the services start: providers are registered, some
\* more than once, callers ask for tools and providers, constructors may
\* fail.
NextRegistry ==
    \/ RegisterProvider(RegCalls)
    \/ GetAllTools(RegQueries)
    \/ GetToolProvider(RegQueries)
    \/ CreateReasoningEngine

SpecRegistry == InitStt /\ [][NextRegistry]_vars

\* Two clients connected at the same time.
NextSessions ==
    \E s \in Sessions :
        \/ NewConnectionManager(s)
        \/ SessionStart(s)
        \/ SessionTextFrame(s, SessTexts)
        \/ SessionSetVoice(s)
        \/ SessionTtsConnect(s)
        \/ SessionReply(s, SessReplies)
        \/ SessionDutyFails(s)
        \/ SessionFinally(s)
        \/ SessionClosed(s)

SpecSessions == InitStt /\ [][NextSessions]_vars

\* The liveness scenario from the accepted connection on, with or without
\* a reasoning engine.
InitEndpoint == InitFrom("accepted", BOOLEAN, BOOLEAN, {<<>>})

NextStart ==
    \/ WebsocketEndpoint
    \/ NextFair

FairSpecStart ==
    InitEndpoint /\ [][NextStart]_vars /\ Fairness /\ WF_vars(WebsocketEndpoint)

\* A session whose client sends control frames and audio while a turn is
\* answered.
NextControl ==
    \/ SupStep
    \/ CancelStep
    \/ MainStep
    \/ ClientReaderStop
    \/ ControlStep(CtlTexts, {"voice", "bad", "fatal"})
    \/ ClientReaderBytes(CtlAudio)
    \/ TextHandlerTimeout
    \/ \E t \in TtsCallers : TtsCall(t, CtlTtsConns)
    \/ GenStep
    \/ GenRecvMessage(CtlMsgs, {"ok", "bad"})
    \/ AgentInvokeReturned
    \/ GenAclose

SpecControl == InitStt /\ [][NextControl]_vars

\* The TTS client alone: a caller that calls connect() again and again and
\* close() in between, on a service that may refuse connections.
NextTts ==
    \/ ConnectCall(TtsCalls)
    \/ CloseCall
    \/ TtsAcquire("conn")
    \/ TtsConnected("conn", TtsConns)
    \/ TtsConnectFailed("conn")
    \/ TtsRetry("conn")

SpecTts == InitStt /\ [][NextTts]_vars

\* The reasoning engine alone, one turn after the other, with a model that
\* may answer anything.
NextEngine ==
    \/ AgentAinvoke(EngTurns)
    \/ PrepareInput
    \/ Prune
    \/ CallModel("any", EngInvokes)
    \/ ShouldContinue
    \/ ExecuteTools
    \/ AinvokeReturn

SpecEngine == InitStt /\ [][NextEngine]_vars

\* A model server that may fail at any call.
NextRaise ==
    \/ AgentAinvoke(RaiseTurns)
    \/ PrepareInput
    \/ Prune
    \/ CallModel("one_tool", RaiseInvokes)
    \/ CallModelRaises
    \/ ShouldContinue
    \/ ExecuteTools
    \/ AinvokeReturn

SpecRaise == InitStt /\ [][NextRaise]_vars

\* A model that keeps asking for tools.
NextLoop ==
    \/ AgentAinvoke(LoopTurns)
    \/ PrepareInput
    \/ Prune
    \/ CallModel("loop", LoopInvokes)
    \/ ShouldContinue
    \/ ExecuteTools
    \/ AinvokeReturn
    \/ GraphRecursionError

SpecLoop == InitStt /\ [][NextLoop]_vars

\* A long conversation: many turns, the model asking for tools at most once
\* a turn.
NextPrune ==
    \/ AgentAinvoke(PruneTurns)
    \/ PrepareInput
    \/ Prune
    \/ CallModel("one_tool", PruneInvokes)
    \/ ShouldContinue
    \/ ExecuteTools
    \/ AinvokeReturn

SpecPrune == InitStt /\ [][NextPrune]_vars

\* prepare_input on any list of messages: a human message, an assistant's
\* text, an assistant's tool call or a ToolMessage at each position.
MessageAt(i) ==
    {HumanMessage(i, 0),
     AIMessage(i, Plain("text"), <<>>),
     AIMessage(i, Plain("empty"), <<ToolCall("T", "A", i)>>),
     ToolMessage(i, "result", ToolCall("T", "A", i - 1))}

Histories(n) ==
    UNION {{h \in [1..k -> UNION {MessageAt(i) : i \in 1..n}] :
                \A i \in 1..k : h[i] \in MessageAt(i)} : k \in 0..n}

InitPrepare == InitWith({TRUE}, Histories(PrepLen))

NextPrepare ==
    \/ AgentAinvoke(PrepTurns)
    \/ PrepareInput

SpecPrepare == InitPrepare /\ [][NextPrepare]_vars

\* ---------------------------------------------------------------------
\* Properties
\* ---------------------------------------------------------------------

\* The tasks the supervisor answers for: those of self._tasks and the
\* children of the start-up gather of _run_main_logic.
SessionTasks == TopTasks \cup ProcessingTasks \cup {"conn", "warm"}

\* A cancellation was requested and is not yet worked off.
Cancelling(t) ==
    \/ cancel_req[t]
    \/ t = "main" /\ pc[t] \in {"startup_cancelled", "gather_cancelled"}
    \/ t = "agent" /\ pc[t] = "fin" /\ g_after = "cancel"

\* The supervisor's own shutdown sequence: once handle_connection has left
\* its wait the shutdown flag is set and every task it answers for that
\* still runs has been cancelled; the TTS connection is closed only when
\* none of them runs any more and is closed at the return.
SupervisedShutdownInOrder ==
    /\ sup_pc \in {"gather", "close", "returned"} =>
         /\ shutdown_event
         /\ \A t \in SessionTasks : Running(t) => Cancelling(t)
    /\ sup_pc \in {"close", "returned"} =>
         \A t \in SessionTasks : ~Running(t)
    /\ sup_pc = "returned" => tts_client = 0

\* C1: shutdown sets the flag, cancels every running task of the session,
\* waits for them and only then closes the TTS connection; when
\* handle_connection has returned the flag is set, the TTS client is
\* disconnected and no task spawned for the session is still running, the
\* forwarder task of the STT client included.
ShutdownInOrder ==
    /\ SupervisedShutdownInOrder
    /\ sup_pc = "returned" => \A t \in Tasks : ~Running(t)

\* C2: whenever the shutdown flag is set, handle_connection eventually
\* returns.
FlagLeadsToShutdown == shutdown_event ~> (sup_pc = "returned")

\* C3: whenever a duty task has completed, handle_connection eventually
\* returns.
DutyEndLeadsToShutdown ==
    (\E t \in {"reader", "writer", "agent", "text"} : Finished(t))
        ~> (sup_pc = "returned")

\* C5: after an unexpected STT error the transcript stream has stopped for
\* good and _agent_loop has seen a failure, not a normal end of the stream.
SttErrorReported ==
    stt_error => /\ ~Running("agent")
                 /\ agent_exit = "error"

\* A connection attempt of the transcript generator starts.
AttemptStarts == pc["agent"] # "connect" /\ pc'["agent"] = "connect"

\* websocket_connect raised ConnectionRefusedError.
RefusedStep == pc["agent"] = "connect" /\ stt_fails' = stt_fails + 1

\* recv raised ConnectionClosed.
ClosedStep ==
    /\ pc["agent"] = "recv" /\ pc'["agent"] # "recv"
    /\ ~stt_alive /\ ~cancel_req["agent"]

\* One step of the reconnect loop: see ReconnectPolicy.
ReconnectStep ==
    /\ AttemptStarts => ~shutdown_event
    /\ (RefusedStep \/ ClosedStep) =>
         IF shutdown_event THEN pc'["agent"] # "sleep"
                           ELSE pc'["agent"] = "sleep" /\ Running("agent")'
    /\ (pc["agent"] = "sleep" /\ pc'["agent"] # "sleep"
          /\ ~cancel_req["agent"]) => pc'["agent"] \in {"fin", "top"}
    /\ (pc["agent"] = "top" /\ pc'["agent"] # "top" /\ stt_fails > 0) =>
         pc'["agent"] = "connect"

\* C4: with the flag unset a refused or closed STT connection is followed by
\* the retry sleep, and the sleep by the finally block and a new connection
\* attempt; with the flag set the generator does not sleep, and no
\* connection attempt ever starts while the flag is set.
ReconnectPolicy == [][ReconnectStep]_vars

\* A second connection attempt is under way after a failure.
ReconnectPolicyWitness ==
    /\ Running("agent") /\ pc["agent"] = "connect"
    /\ stt_fails > 0 /\ ~shutdown_event

\* C6: the messages yielded to the agent loop are exactly the messages
\* received from the STT service, each once and in receive order, over all
\* connections.
YieldedExactlyOnce ==
    /\ yielded = stt_received
    /\ \A i \in 1..Len(yielded) : yielded[i][1] = i

\* One message was yielded before a drop and one after the reconnect.
YieldedExactlyOnceWitness ==
    /\ Len(yielded) = 2
    /\ yielded[1][2] = 1
    /\ yielded[2][2] = 2

\* C7: the frames sent to the STT service are frames received from the
\* transport, in strictly increasing arrival order (none twice, none out of
\* order), over all connections.
AudioInOrder ==
    /\ \A i \in 1..Len(stt_sent) : stt_sent[i][1] \in 1..n_audio
    /\ \A i, j \in 1..Len(stt_sent) :
         i < j => stt_sent[i][1] < stt_sent[j][1]

\* One frame was sent on the first connection and a later one on the second.
AudioInOrderWitness ==
    /\ Len(stt_sent) = 2
    /\ stt_sent[1][2] = 1
    /\ stt_sent[2][2] = 2

\* C8: at most one reasoning call is in flight, it is the call of the agent
\* loop at its ainvoke, and while the loop body works on a transcript that
\* transcript is the newest one received and yielded.
OneTurnAtATime ==
    /\ inflight \in {0, 1}
    /\ inflight = 1 <=> (Running("agent") /\ pc["agent"] = "invoke")
    /\ (Running("agent") /\ pc["agent"] \in BodyPcs) =>
         /\ message_str = n_stt
         /\ yielded # <<>>
         /\ yielded[Len(yielded)][1] = message_str

\* The second transcript is at the reasoning engine after the first turn
\* was answered.
OneTurnAtATimeWitness ==
    /\ Running("agent") /\ pc["agent"] = "invoke"
    /\ message_str = 2
    /\ \E i \in 1..Len(client_output_queue) :
         client_output_queue[i] = <<"reply", 1>>

\* A task is inside the critical section of connect / synthesize_speech.
InCritical(t) ==
    Running(t) /\ pc[t] \in {"tconn", "tsleep", "write", "read", "tclose"}

\* C9: at most one task is inside the critical section of the TTS client,
\* that task holds the lock, and the lock is held by nobody else: a task
\* that has left the section on any path has released it.
TtsMutualExclusion ==
    /\ Cardinality({t \in TtsCallers : InCritical(t)}) <= 1
    /\ \A t \in TtsCallers : InCritical(t) => tts_lock = t
    /\ tts_lock # "free" => InCritical(tts_lock)

\* connect() is inside the section while the warm-up synthesis waits.
TtsMutualExclusionWitness ==
    /\ InCritical("conn")
    /\ Running("warm") /\ pc["warm"] = "lock"

\* A call of t leaves close() after a failure, normally or cancelled.
LeavesClose(t) ==
    /\ Running(t) /\ pc[t] = "tclose"
    /\ ~(Running(t)' /\ pc'[t] = "tclose")

\* C10: a failed synthesize leaves the client unconnected, its connection
\* discarded, and queues no clip (it returned none); a request is written
\* and read only on a cached connection that was never discarded.
FailureInvalidates ==
    /\ [](\A t \in TtsCallers :
            (Running(t) /\ pc[t] \in {"write", "read"}) =>
                tts_client # 0 /\ tts_client \notin tts_discarded)
    /\ [][\A t \in TtsCallers : LeavesClose(t) =>
            /\ tts_client' = 0
            /\ tts_client \in tts_discarded'
            /\ client_output_queue' = client_output_queue]_vars

\* After a failure the agent loop's next synthesis is on a new connection.
FailureInvalidatesWitness ==
    /\ Running("agent") /\ pc["agent"] = "write"
    /\ tts_client = 2
    /\ tts_discarded = {1}

\* The connections that were opened and not closed.
LiveConnections == (1..tts_next) \ tts_discarded

\* connect() runs _ensure_connected on a client that is connected.
ConnectOnConnected ==
    /\ Running("conn") /\ pc["conn"] = "lock"
    /\ tts_client # 0
    /\ st'["conn"] # st["conn"] \/ pc'["conn"] # pc["conn"]

\* C11: connect() on a connected client returns at once, opens no connection
\* and leaves the cached connection as it is; whatever the number of
\* connect() calls, at most one opened connection is live, and it is the
\* cached one.
ConnectIdempotent ==
    /\ [](/\ Cardinality(LiveConnections) <= 1
          /\ LiveConnections \subseteq {tts_client})
    /\ [][ConnectOnConnected =>
            /\ st'["conn"] = "done"
            /\ tts_client' = tts_client
            /\ tts_next' = tts_next
            /\ tts_discarded' = tts_discarded]_vars

\* A third connect() has returned on the connection the first one opened.
ConnectIdempotentWitness ==
    /\ n_connect = 3 /\ st["conn"] = "done"
    /\ tts_client = 1 /\ tts_next = 1

\* The prune node runs and its update is applied.
PruneStep == eng_pc = "prune" /\ eng_pc' = "agent"

\* C12: after the prune step the history holds at most MESSAGE_PRUNING_LIMIT
\* messages, and they are the newest ones of the history before it, in their
\* order; the first call of the model in a turn receives at most that many
\* messages (10 stored and the new user message reach it as 10, not 11).
PruneKeepsNewest ==
    /\ [][PruneStep =>
            /\ Len(messages') <= MESSAGE_PRUNING_LIMIT
            /\ messages' = Newest(messages, MESSAGE_PRUNING_LIMIT)]_vars
    /\ [](n_invoke = 1 => Len(model_input) <= MESSAGE_PRUNING_LIMIT)

\* The ids of the tool calls carried by the messages of a list.
CallIds(msgs) ==
    {msgs[j].tool_calls[k].id :
        <<j, k>> \in {<<j, k>> \in (1..Len(msgs)) \X (1..2) :
                         k <= Len(msgs[j].tool_calls)}}

\* A ToolMessage of the list has no message before it that carries its call.
Dangling(msgs) ==
    \E i \in 1..Len(msgs) :
        /\ msgs[i].kind = "tool"
        /\ msgs[i].tool_call_id \notin CallIds(SubSeq(msgs, 1, i - 1))

\* The calls whose message is among the evicted ones (all but the newest n)
\* while a result of theirs is not.
SplitCalls(msgs, n) ==
    IF Len(msgs) <= n THEN {}
    ELSE {c \in CallIds(SubSeq(msgs, 1, Len(msgs) - n)) :
            \E i \in (Len(msgs) - n + 1)..Len(msgs) :
                msgs[i].kind = "tool" /\ msgs[i].tool_call_id = c}

\* C13: after the prune step every ToolMessage of the history has a message
\* before it that carries its call, and a call that the eviction boundary
\* separates from its result is gone with its result.
PruneKeepsPairs ==
    [][PruneStep =>
        /\ ~Dangling(messages')
        /\ \A c \in SplitCalls(messages, MESSAGE_PRUNING_LIMIT) :
            /\ c \notin CallIds(messages')
            /\ \A i \in 1..Len(messages') : messages'[i].tool_call_id # c]_vars

\* The prepare_input node runs and its update is applied.
PrepareStep == eng_pc = "prepare_input" /\ eng_pc' = "prune"

\* C14: prepare_input leaves the history as it is when its last message is
\* a ToolMessage, and otherwise (an empty history included) appends one
\* human message whose content is the utterance of the turn.
PrepareAppendsIff ==
    [][PrepareStep =>
        IF Len(messages) > 0 /\ messages[Len(messages)].kind = "tool"
        THEN messages' = messages
        ELSE /\ Len(messages') = Len(messages) + 1
             /\ SubSeq(messages', 1, Len(messages)) = messages
             /\ messages'[Len(messages')].kind = "human"
             /\ messages'[Len(messages')].text = transcribed_text]_vars

\* prepare_input has run on a history that ends with a ToolMessage.
PrepareAppendsIffWitness ==
    /\ eng_pc = "prune"
    /\ Len(conversation_state) = 3
    /\ conversation_state[3].kind = "tool"
    /\ messages = conversation_state

\* The routing after the agent node.
DecideStep == eng_pc = "should_continue" /\ eng_pc' # eng_pc

\* C15: after each call of the model the graph goes to execute_tools exactly
\* when the message the model step added carries at least one tool call, and
\* to the end otherwise, where that message's content is what ainvoke
\* returns; when the first message of a turn carries no tool call the turn
\* is over after that one call of the model and no run of execute_tools.
DecideByToolCalls ==
    /\ [][DecideStep =>
            /\ eng_pc' = "execute_tools"
                    <=> Len(messages[Len(messages)].tool_calls) >= 1
            /\ eng_pc' # "execute_tools" => eng_pc' = "end"]_vars
    /\ [][eng_pc = "end" /\ eng_pc' = "idle" =>
            /\ messages[Len(messages)].uid = response.uid
            /\ llm_response' = messages[Len(messages)].content]_vars
    /\ [](/\ n_invoke = 1
          /\ eng_pc # "should_continue"
          /\ messages[Len(messages)].kind = "ai"
          /\ messages[Len(messages)].tool_calls = <<>>
          => eng_pc \in {"end", "idle"} /\ n_exec = 0)

\* A turn answered in plain text is over: one call of the model, no tools.
DecideByToolCallsWitness ==
    /\ eng_pc = "idle" /\ n_turns = 1
    /\ n_invoke = 1 /\ n_exec = 0
    /\ llm_response.form = "text"

\* The messages added to a history since the human message of this turn.
ThisTurn(msgs) ==
    LET starts == {i \in 1..Len(msgs) :
                     msgs[i].kind = "human" /\ msgs[i].text = transcribed_text}
        start == CHOOSE i \in starts : \A j \in starts : j <= i
    IN  SubSeq(msgs, start + 1, Len(msgs))

\* The turn is over and ainvoke has returned.
TurnOver == eng_pc = "idle" /\ n_turns > 0

\* The model was called twice in the turn and its first message asked for
\* tool T with arguments A, nothing else.
AskedTWithA ==
    /\ n_invoke = 2
    /\ \E c \in 1..next_uid :
        ThisTurn(conversation_state)[1].tool_calls = <<ToolCall("T", "A", c)>>

\* C16: when the model asks for tool T with arguments A and then answers
\* without asking for tools, the tool has been run exactly once, with A;
\* the messages of the turn are the request, the ToolMessage of that call
\* with the tool's result, and the answer, which is the last message of the
\* stored history and whose content ainvoke returned.
ToolThenReply ==
    TurnOver /\ AskedTWithA =>
        LET tm == ThisTurn(conversation_state) IN
        /\ Len(tool_log) = 1
        /\ tool_log[1] = tm[1].tool_calls[1]
        /\ Len(tm) = 3
        /\ tm[2].kind = "tool"
        /\ tm[2].tool_call_id = tm[1].tool_calls[1].id
        /\ tm[2].content.form = "result"
        /\ tm[3] = response
        /\ tm[3].tool_calls = <<>>
        /\ llm_response = response.content

\* Such a turn is over, the second response being a text.
ToolThenReplyWitness ==
    /\ TurnOver /\ AskedTWithA
    /\ response.content.form = "text"
    /\ llm_response.form = "text"

\* The agent node runs and its update is applied.
InvokeStep == eng_pc = "agent" /\ eng_pc' = "should_continue"

ResultsOf(msgs, j, c) ==
    {i \in (j + 1)..Len(msgs) :
        msgs[i].kind = "tool" /\ msgs[i].tool_call_id = c.id}

WriteFailureStops ==
    /\ [](send_failed => shutdown_event /\ st["writer"] = "done")
    /\ [][send_failed =>
            Len(client_output_queue') >= Len(client_output_queue)]_vars

\* A send has failed and an item queued since then is still in the queue,
\* the session being over.
WriteFailureStopsWitness ==
    /\ send_failed
    /\ client_output_queue # <<>>
    /\ sup_pc = "returned"

\* C22: once the supervisor has cancelled the tasks and waits for them, it
\* goes on to close the TTS client and returns, whether or not every task
\* ends in answer to its cancellation.
ShutdownBounded == (sup_pc = "gather") ~> (sup_pc = "returned")

\* C23: a malformed message is skipped. When the control loop takes a frame
\* that is not a JSON object ("bad": JSONDecodeError or TypeError; "fatal":
\* a text on which json.loads raises another exception, such as brackets
\* nested beyond the recursion limit), and when the agent loop receives an
\* STT message that is not valid JSON, the shutdown flag keeps its value,
\* the voice is unchanged, and unless the flag was already set the loop
\* is still running and waits for the next message.
MalformedSkipped ==
    /\ [][/\ Len(text_input_queue') < Len(text_input_queue)
          /\ Head(text_input_queue) \in {"bad", "fatal"}
          => /\ shutdown_event' = shutdown_event
             /\ voice' = voice
             /\ ~shutdown_event =>
                    st'["text"] = "run" /\ pc'["text"] = "get"]_vars
    /\ [][n_stt' # n_stt /\ message_kind' = "bad"
          => /\ shutdown_event' = shutdown_event
             /\ voice' = voice
             /\ client_output_queue' = client_output_queue
             /\ inflight' = inflight
             /\ ~shutdown_event =>
                    st'["agent"] = "run" /\ pc'["agent"] = "recv"]_vars

\* C24: an STT message whose transcript is empty or blank puts nothing on
\* the output queue, starts no call of the reasoning engine, asks nothing of
\* TTS and leaves the voice of the ConversationState as it was; the agent
\* loop goes on to the next message.
EmptyTranscriptIgnored ==
    [][n_stt' # n_stt /\ message_kind' = "empty"
       => /\ client_output_queue' = client_output_queue
          /\ inflight' = inflight
          /\ pc'["agent"] \notin {"invoke", "lock"}
          /\ UNCHANGED <<voice, inv_voice, synth_voice>>
          /\ UNCHANGED ttsVars]_vars

\* The second message had no transcript: the first one was answered, and
\* only its echo and its reply were queued.
EmptyTranscriptIgnoredWitness ==
    /\ n_stt = 2 /\ message_kind = "empty"
    /\ Len(yielded) = 2
    /\ pc["agent"] = "recv"
    /\ \A i \in 1..Len(client_output_queue) : client_output_queue[i][2] = 1

\* C25: a session does not hang at start. Without a reasoning engine the
\* accepted connection is closed with code 1011 and no task of a session
\* is ever created; with one, handle_connection is called and from then on
\* the main logic either leaves start-up (the agent loop and the control
\* loop are created) or the shutdown flag is set.
StartNeverHangs ==
    /\ [](~reasoning_engine =>
             /\ sup_pc \in {"accepted", "rejected"}
             /\ tasks = {}
             /\ \A t \in Tasks : st[t] = "none")
    /\ [](sup_pc = "rejected" => close_code = 1011)
    /\ (sup_pc = "accepted") ~>
          \/ sup_pc = "rejected"
          \/ ProcessingTasks \subseteq tasks
          \/ shutdown_event

\* What session s owns: its ConnectionManager and the objects it refers to.
Owned(s) == <<managers[s], [f \in Fields |-> Field(s, f)]>>

\* A step in which session s fails or shuts down.
FailsOrShuts(s) ==
    /\ managers[s].state \in {"run", "close"}
    /\ \/ ~Field(s, "shutdown_event") /\ Field(s, "shutdown_event")'
       \/ managers'[s].state # managers[s].state

\* C26: with two sessions, a step in which one session fails or shuts down
\* (its flag is set, its tasks are cancelled, its TTS client is closed)
\* leaves the other session's flag, tasks, TTS connection, queues and
\* ConversationState as they were.
SessionsIsolated ==
    [][\A s, o \in Sessions :
          /\ s # o
          /\ managers[o].state # "none"
          /\ FailsOrShuts(s)
          => Owned(o)' = Owned(o)]_vars

\* Session 1 has failed and returned while session 2 runs on, connected to
\* TTS, with its voice changed, a reply queued and its flag not set.
SessionsIsolatedWitness ==
    /\ managers[1].state = "returned"
    /\ SessionRuns(2)
    /\ ~Field(2, "shutdown_event")
    /\ Field(2, "tts_client") = 1
    /\ Field(2, "agent") = "vb"
    /\ Field(2, "client_output_queue") # <<>>

\* The classes of a list of register_provider calls, each at its first place.
RECURSIVE FirstRegistered(_)
FirstRegistered(log) ==
    IF log = <<>> THEN <<>>
    ELSE LET init == FirstRegistered(SubSeq(log, 1, Len(log) - 1))
             c == log[Len(log)]
         IN IF \E i \in 1..Len(init) : init[i] = c THEN init
            ELSE Append(init, c)

\* The tools of the classes of a list, in its order.
RECURSIVE AllToolsOf(_)
AllToolsOf(provs) ==
    IF provs = <<>> THEN <<>>
    ELSE ToolsOf(Head(provs)) \o AllToolsOf(Tail(provs))

\* A call on the registry returns or raises in this step.
RegistryCall(name) ==
    /\ n_queries' # n_queries \/ startup' # startup
    /\ result'.call = name

\* C27: every call of get_all_tools that returns gives the tools of the
\* classes registered so far, each class once at the place of its first
\* registration, whatever the number of times it was registered; so two
\* calls with the same registrations return the same sequence.
AllToolsStable ==
    [][RegistryCall("get_all_tools") /\ ~result'.raised =>
          result'.value = AllToolsOf(FirstRegistered(register_log))]_vars

\* get_all_tools has returned the tools of Q then P, Q having been
\* registered before and after P.
AllToolsStableWitness ==
    /\ register_log = <<"Q", "P", "Q">>
    /\ result.call = "get_all_tools" /\ ~result.raised
    /\ result.value = <<"q1", "p1", "p2">>
    /\ n_queries >= 2

\* C28: a provider class is constructed at most once in a registry; its
\* cached instance never changes and is what get_tool_provider returns;
\* registering constructs nothing, get_all_tools constructs only registered
\* classes and get_tool_provider only the class asked for.
ProvidersConstructedOnce ==
    /\ [](\A c \in Providers : tool_instances[c] <= 1)
    /\ [][\A c \in Providers :
             tool_instances[c] # 0 => tool_instances'[c] = tool_instances[c]]_vars
    /\ [][register_log' # register_log =>
             tool_instances' = tool_instances]_vars
    /\ [][RegistryCall("get_tool_provider") =>
             /\ ~result'.raised =>
                   result'.value = <<result'.arg, 1>>
             /\ \A c \in Providers \ {result'.arg} :
                   tool_instances'[c] = tool_instances[c]]_vars
    /\ [][RegistryCall("get_all_tools")
            \/ RegistryCall("create_reasoning_engine") =>
             \A c \in Providers \ Range(tool_providers) :
                   tool_instances'[c] = tool_instances[c]]_vars

\* The third call on the registry asks for a provider that an earlier
\* get_all_tools has constructed, and gets that instance.
ProvidersConstructedOnceWitness ==
    /\ n_queries = 3
    /\ startup = "ready"
    /\ result.call = "get_tool_provider" /\ ~result.raised
    /\ result.arg \in Range(tool_providers)
    /\ \A c \in Range(tool_providers) : tool_instances[c] = 1

\* C29: when a constructor fails, get_all_tools raises and returns no
\* list; a list that is returned holds the tools of every registered
\* class, each of them constructed; the reasoning engine is built only
\* with the tools of every registered class, and when get_all_tools raises
\* inside its creation, no engine is built and the start of the services
\* is aborted.
ConstructorFailureAborts ==
    /\ [][result'.raised /\ result' # result =>
             /\ result'.value = <<>>
             /\ engine_tools' = engine_tools
             /\ result'.call = "create_reasoning_engine" =>
                   startup' = "aborted"]_vars
    /\ [][RegistryCall("get_all_tools") /\ ~result'.raised =>
             /\ result'.value = AllToolsOf(tool_providers)
             /\ \A c \in Range(tool_providers) : tool_instances'[c] # 0]_vars
    /\ [][startup' = "ready" /\ startup # "ready" =>
             /\ engine_tools' =
                   Append(AllToolsOf(tool_providers), "get_current_datetime")
             /\ \A c \in Range(tool_providers) : tool_instances'[c] # 0]_vars
    /\ [](startup = "aborted" => engine_tools = <<>>)

\* The creation of the engine has raised at the second of two registered
\* classes: the first is constructed, nothing is bound, the start is
\* aborted.
ConstructorFailureAbortsWitness ==
    /\ startup = "aborted"
    /\ result.call = "create_reasoning_engine" /\ result.raised
    /\ Len(tool_providers) = 2
    /\ tool_instances[tool_providers[1]] = 1
    /\ tool_instances[tool_providers[2]] = 0
    /\ engine_tools = <<>>

\* The duty loops and the blocking read of each: ws.receive() (line 132),
\* client_output_queue.get() (line 155), text_input_queue.get() (line 173),
\* stt_ws.recv() (stt_client.py line 62), audio_queue.get() (line 30).
DutyLoops == {"reader", "writer", "text", "agent", "fwd"}

ReadPc(t) ==
    CASE t = "reader" -> "receive"
      [] t = "agent" -> "recv"
      [] OTHER -> "get"

BlockedAtRead(t) == Running(t) /\ pc[t] = ReadPc(t) /\ ~cancel_req[t]

\* A step a loop takes from its blocking read with what is there already:
\* the timeout of its wait, an item that is in its queue, or the error of
\* a connection that is closed.
QuietStep ==
    \/ ClientWriterSent
    \/ TextHandlerGet
    \/ TextHandlerTimeout
    \/ GenRecvTimeout
    \/ GenRecvClosed
    \/ ForwardAudioGet
    \/ ForwardAudioTimeout

\* C30: while the shutdown flag is set, a duty loop that waits in its
\* blocking read and has not been cancelled can leave the read by itself:
\* without a new frame or message, a new queue item or a cancellation.
LoopsObserveFlag ==
    \A t \in DutyLoops :
        shutdown_event /\ BlockedAtRead(t) =>
            ENABLED (QuietStep /\ (st'[t] # st[t] \/ pc'[t] # pc[t]))

TtsRetryRespectsShutdown ==
    /\ [][\A t \in TtsCallers :
            shutdown_event /\ Running(t) /\ pc[t] # "tconn"
              => ~(Running(t)' /\ pc'[t] = "tconn")]_vars
    /\ [](\A t \in TtsCallers :
            shutdown_event /\ Running(t) /\ pc[t] = "tsleep"
              => tts_lock # t)

\* ---------------------------------------------------------------------
\* synthesize_speech as a function of the events it reads:
\* tts_client.py lines 68-109.

SynCalls == 2
MaxEvents == 4

\* What read_event can give: the Wyoming events audio-start (with wave
\* parameters that wave accepts, or that it rejects), audio-chunk,
\* audio-stop, error, an event of another type, and None when the server
\* has closed the connection.
EventKinds ==
    {"start", "start_invalid", "chunk", "stop", "error", "other", "none"}

\* Line 97: Event.is_type(event.type, "error"). Event is the event
\* dataclass of the wyoming package, which is not part of the repository;
\* the type tests of lines 79-94 are static methods of the event classes
\* AudioStart, AudioChunk and AudioStop. Where Event has such a method the
\* call answers whether the type is "error"; where it has none the call
\* raises AttributeError, which line 106 catches.
IsTypeOutcomes == {"answers", "raises"}

\* Lines 101-104: the writer is closed and the buffer is returned when
\* audio was received, None otherwise.
Returned == IF synth.audio_received THEN "audio" ELSE "none"

\* Lines 61-70: a request starts (connected by _ensure_connected) with an
\* empty buffer, no writer and audio_received False.
SynthesizeSpeech(max) ==
    /\ sup_pc = "init"
    /\ synth_result # "reading"
    /\ n_synth < max
    /\ n_synth' = n_synth + 1
    /\ tts_client' = IF AlreadyConnected THEN tts_client ELSE tts_next + 1
    /\ tts_next' = IF AlreadyConnected THEN tts_next ELSE tts_next + 1
    /\ events' = <<>>
    /\ synth' = NoReq
    /\ synth_result' = "reading"
    /\ UNCHANGED <<supVars, taskVars, queueVars, wsVars, convVars, sttVars,
                   fwdVars, agentVars, engVars, tool_providers,
                   tool_instances, register_log, result, n_queries,
                   engine_tools, startup, managers, objects,
                   reasoning_engine, close_code, shutdown_event, llm_ready,
                   tts_lock, tts_discarded, tts_req, n_connect, create_args,
                   create_pc, attempt, delay, outcomes, slept, n_create,
                   preload_args, preload_pc, retries>>

\* Lines 74-77 and 106-109: close() and return None.
SynthFail ==
    /\ tts_discarded' = Discard(tts_client)
    /\ tts_client' = CloseClient
    /\ synth_result' = "none"
    /\ synth' = synth

\* Lines 94-104: break, then the return.
SynthBreak ==
    /\ synth_result' = Returned
    /\ UNCHANGED <<synth, tts_client, tts_discarded>>

\* Lines 72-99: one turn of the read loop.
SynthReadEvent(maxlen) ==
    /\ synth_result = "reading"
    /\ Len(events) < maxlen
    /\ \E e \in EventKinds, o \in IsTypeOutcomes :
         /\ events' = Append(events, e)
         /\ CASE e = "none" -> SynthFail
              [] e = "start" ->
                   /\ synth' = [synth EXCEPT !.wav_writer = TRUE]
                   /\ UNCHANGED <<synth_result, tts_client, tts_discarded>>
              [] e = "start_invalid" -> SynthFail
              [] e = "chunk" ->
                   /\ synth' = [synth EXCEPT !.audio_received =
                                               @ \/ synth.wav_writer]
                   /\ UNCHANGED <<synth_result, tts_client, tts_discarded>>
              [] e = "stop" -> SynthBreak
              [] e = "error" ->
                   IF o = "answers" THEN SynthBreak ELSE SynthFail
              [] e = "other" ->
                   IF o = "answers"
                     THEN UNCHANGED <<synth, synth_result, tts_client,
                                      tts_discarded>>
                     ELSE SynthFail
    /\ UNCHANGED <<supVars, taskVars, queueVars, wsVars, convVars, sttVars,
                   fwdVars, agentVars, engVars, tool_providers,
                   tool_instances, register_log, result, n_queries,
                   engine_tools, startup, managers, objects,
                   reasoning_engine, close_code, shutdown_event, llm_ready,
                   tts_lock, tts_next, tts_req, n_connect, n_synth,
                   create_args, create_pc, attempt, delay, outcomes, slept,
                   n_create, preload_args, preload_pc, retries>>

NextSynth ==
    \/ SynthesizeSpeech(SynCalls)
    \/ SynthReadEvent(MaxEvents)

SpecSynth == InitStt /\ [][NextSynth]_vars

\* An audio-chunk event read after an audio-start event.
ChunkAfterStart(s) ==
    \E i, j \in 1..Len(s) : i < j /\ s[i] = "start" /\ s[j] = "chunk"

\* C33: synthesize_speech returns a clip if and only if, among the events
\* of this request, an audio-chunk came after an audio-start and the last
\* event was audio-stop or an error event; otherwise it returns None.
SynthesizeReturnsClip ==
    synth_result \in {"audio", "none"} =>
        (synth_result = "audio" <=>
            /\ ChunkAfterStart(events)
            /\ events[Len(events)] \in {"stop", "error"})

\* A turn is under way.
InTurn == eng_pc \notin {"idle", "end"}

\* C34 as stated: no iteration cap. A turn ends only through the end edge,
\* taken exactly when the last message of the model has no tool calls,
\* and until then the tools and the model are run in turn whatever the
\* number of cycles.
NoIterationCap ==
    /\ [][eng_pc = "should_continue" /\ eng_pc' # "should_continue"
            => (eng_pc' = "end" <=> Len(Last(messages).tool_calls) = 0)]_vars
    /\ [][InTurn /\ eng_pc' # eng_pc /\ ~InTurn' => eng_pc' = "end"]_vars
    /\ [](eng_pc = "execute_tools" => ENABLED ExecuteTools)
    /\ [](eng_pc = "agent" => ENABLED CallModel("loop", LoopInvokes))

\* C34, amended: the source sets no cap of its own and the only bound is
\* the recursion limit of the graph runtime. A turn reaches the end edge
\* exactly when the last message of the model has no tool calls; while
\* fewer than RecursionLimit nodes have run, the tools run after every
\* request and the model is called after every run of the tools; no turn
\* runs more than RecursionLimit nodes, and a turn that leaves the loop
\* otherwise has used all of them and stores nothing.
LoopBoundedByRecursionLimit ==
    /\ [][eng_pc = "should_continue" /\ eng_pc' # "should_continue"
            => (eng_pc' = "end" <=> Len(Last(messages).tool_calls) = 0)]_vars
    /\ [][InTurn /\ eng_pc' # eng_pc /\ ~InTurn' /\ eng_pc' # "end"
            => /\ SuperSteps = RecursionLimit
               /\ conversation_state' = conversation_state]_vars
    /\ [][eng_pc = "execute_tools" /\ eng_pc' # eng_pc /\ InTurn'
            => eng_pc' = "agent" /\ n_exec' = n_exec + 1]_vars
    /\ [](eng_pc = "execute_tools" /\ WithinLimit => ENABLED ExecuteTools)
    /\ [](eng_pc = "agent" /\ WithinLimit
            => ENABLED CallModel("loop", LoopInvokes))
    /\ [](SuperSteps <= RecursionLimit)

\* The model has asked for tools in every call of a turn until the limit.
LoopBoundedByRecursionLimitWitness ==
    /\ eng_pc = "execute_tools"
    /\ SuperSteps = RecursionLimit
    /\ n_exec = 11

\* The item is put on the output queue by this step.
Queued(item) ==
    \E i \in 1..Len(client_output_queue') :
        /\ client_output_queue'[i] = item
        /\ Len(client_output_queue') >= Len(client_output_queue)
        /\ i = Len(client_output_queue')
        /\ client_output_queue' # client_output_queue

\* The readiness check with which _handle_llm_warmup starts.
WarmupCheck ==
    /\ Running("warm") /\ pc["warm"] = "begin"
    /\ pc'["warm"] # "begin" \/ ~Running("warm")'
    /\ ~cancel_req["warm"]

\* C35: when the readiness event is not set at the check that starts the
\* session's main logic, that step queues the waiting text, once; the
\* waiting text is queued by no other step and the check is made once;
\* its audio is queued only by the synthesis that follows, while nothing
\* else of the session writes to the queue; when the event is set at the
\* check nothing is queued; and the agent loop, which passes transcripts
\* to the reasoning engine, does not exist until the event is set.
InterimMessageOnce ==
    /\ [][WarmupCheck /\ ~llm_ready
            => client_output_queue' =
                   Append(client_output_queue, <<"wait", 0>>)]_vars
    /\ [][WarmupCheck /\ llm_ready
            => /\ UNCHANGED client_output_queue
               /\ st'["warm"] = "done"]_vars
    /\ [][Queued(<<"wait", 0>>) => WarmupCheck /\ ~llm_ready]_vars
    /\ [][pc'["warm"] = "begin" /\ pc["warm"] # "begin"
            => st["warm"] = "none"]_vars
    /\ [][Queued(<<"waitaudio", 0>>)
            => /\ Running("warm") /\ pc["warm"] = "read"
               /\ ~(Running("warm")' /\ pc'["warm"] = "read")
               /\ ~Running("agent") /\ ~Running("text")]_vars
    /\ [](st["agent"] # "none" \/ inflight > 0 => llm_ready)

\* The waiting text and its audio have been queued and the session waits
\* for the readiness event.
InterimMessageOnceWitness ==
    /\ client_output_queue = <<<<"wait", 0>>, <<"waitaudio", 0>>>>
    /\ Running("warm") /\ pc["warm"] = "llmwait"
    /\ ~llm_ready

\* The place of an output item in the order of the session: the waiting
\* text and its audio, then for each transcript its echo, the reply and
\* the audio.
Rank(item) ==
    CASE item[1] = "wait" -> 0
      [] item[1] = "waitaudio" -> 1
      [] item[1] = "echo" -> 3 * item[2]
      [] item[1] = "reply" -> 3 * item[2] + 1
      [] item[1] = "audio" -> 3 * item[2] + 2

\* The agent loop is inside synthesize_speech.
InSynthesis == Running("agent") /\ pc["agent"] \in TtsPcs

NeoCalls == 1
NeoMaxRetries == 3

\* What an attempt (lines 52-56: driver() and verify_connectivity()) can
\* meet: success, an error of one of the classes of line 58, or another
\* error (AuthError is a Neo4jError, not a DriverError).
Outcomes == {"ok", "ServiceUnavailable", "DriverError", "OSError", "AuthError"}

\* Line 58: except (ServiceUnavailable, DriverError, OSError).
IsConnectivity_Any(e) == e # "ok"
IsConnectivity(e) == e \in {"ServiceUnavailable", "DriverError", "OSError"}

\* Lines 28-47: create is called; delay = initial_delay and the for loop
\* over range(1, max_retries + 1) starts, or is empty and line 77 raises.
Neo4jCreate(max, most) ==
    /\ create_pc \notin {"try", "sleep"}
    /\ n_create < max
    /\ n_create' = n_create + 1
    /\ \E r \in 0..most, d \in {1, 3}, f \in {1, 2} :
         /\ create_args' = [max_retries |-> r, initial_delay |-> d,
                            backoff_factor |-> f]
         /\ delay' = d
         /\ attempt' = IF r >= 1 THEN 1 ELSE 0
         /\ create_pc' = IF r >= 1 THEN "try" ELSE "RuntimeError"
    /\ outcomes' = <<>>
    /\ slept' = <<>>
    /\ UNCHANGED <<supVars, taskVars, queueVars, wsVars, convVars, sttVars,
                   fwdVars, agentVars, ttsVars, engVars, tool_providers,
                   tool_instances, register_log, result, n_queries,
                   engine_tools, startup, managers, objects,
                   reasoning_engine, close_code, shutdown_event, llm_ready,
                   events, synth, synth_result, n_synth, preload_args,
                   preload_pc, retries>>

\* Lines 48-75: one attempt. Success returns the client; a connectivity
\* error on the last attempt is raised again, on another attempt the sleep
\* follows; any other error is raised.
Neo4jAttempt ==
    /\ create_pc = "try"
    /\ \E e \in Outcomes :
         /\ outcomes' = Append(outcomes, e)
         /\ create_pc' =
              IF e = "ok" THEN "client"
              ELSE IF IsConnectivity(e)
                     THEN IF attempt = create_args.max_retries
                            THEN "raised"
                            ELSE "sleep"
                     ELSE "raised"
    /\ UNCHANGED <<supVars, taskVars, queueVars, wsVars, convVars, sttVars,
                   fwdVars, agentVars, ttsVars, engVars, tool_providers,
                   tool_instances, register_log, result, n_queries,
                   engine_tools, startup, managers, objects,
                   reasoning_engine, close_code, shutdown_event, llm_ready,
                   events, synth, synth_result, n_synth, create_args,
                   attempt, delay, slept, n_create, preload_args, preload_pc,
                   retries>>

\* Lines 71-72: asyncio.sleep(delay) returns, delay *= backoff_factor, and
\* the loop goes to the next attempt.
Neo4jSlept ==
    /\ create_pc = "sleep"
    /\ slept' = Append(slept, delay)
    /\ delay' = delay * create_args.backoff_factor
    /\ attempt' = attempt + 1
    /\ create_pc' = "try"
    /\ UNCHANGED <<supVars, taskVars, queueVars, wsVars, convVars, sttVars,
                   fwdVars, agentVars, ttsVars, engVars, tool_providers,
                   tool_instances, register_log, result, n_queries,
                   engine_tools, startup, managers, objects,
                   reasoning_engine, close_code, shutdown_event, llm_ready,
                   events, synth, synth_result, n_synth, create_args,
                   outcomes, n_create, preload_args, preload_pc, retries>>

NextNeo4j ==
    \/ Neo4jCreate(NeoCalls, NeoMaxRetries)
    \/ Neo4jAttempt
    \/ Neo4jSlept

SpecNeo4j == InitStt /\ [][NextNeo4j]_vars

RECURSIVE Power(_, _)
Power(b, n) == IF n = 0 THEN 1 ELSE b * Power(b, n - 1)

\* Every attempt before the last one recorded met a connectivity error.
EarlierFailed ==
    \A i \in 1..Len(outcomes) - 1 :
        outcomes[i] \in {"ServiceUnavailable", "DriverError", "OSError"}

\* C37: create makes at most max_retries attempts; the i-th sleep lasts
\* initial_delay * backoff_factor^(i-1) and there is one sleep between
\* two consecutive attempts and none elsewhere; the client is returned
\* on the first success; a connectivity error of the last attempt is
\* raised with no sleep after it; an error of another class is raised by
\* the attempt that met it, with no further attempt and no sleep.
CreateRetriesWithBackoff ==
    /\ Len(outcomes) <= create_args.max_retries
    /\ EarlierFailed
    /\ \A i \in 1..Len(slept) :
          slept[i] = create_args.initial_delay
                       * Power(create_args.backoff_factor, i - 1)
    /\ create_pc = "try" => Len(slept) = Len(outcomes)
    /\ create_pc = "sleep" =>
          /\ Len(slept) = Len(outcomes) - 1
          /\ Len(outcomes) < create_args.max_retries
          /\ outcomes[Len(outcomes)]
                \in {"ServiceUnavailable", "DriverError", "OSError"}
    /\ create_pc = "client" =>
          /\ outcomes[Len(outcomes)] = "ok"
          /\ Len(slept) = Len(outcomes) - 1
    /\ create_pc = "raised" =>
          /\ outcomes[Len(outcomes)] # "ok"
          /\ Len(slept) = Len(outcomes) - 1
          /\ outcomes[Len(outcomes)]
                \in {"ServiceUnavailable", "DriverError", "OSError"}
               => Len(outcomes) = create_args.max_retries
    /\ create_pc \in {"try", "sleep"} /\ Len(outcomes) > 0 =>
          outcomes[Len(outcomes)]
              \in {"ServiceUnavailable", "DriverError", "OSError"}

\* The call has failed three times, has slept twice and raises.
CreateRetriesWithBackoffWitness ==
    /\ create_pc = "raised"
    /\ create_args = [max_retries |-> 3, initial_delay |-> 3,
                      backoff_factor |-> 2]
    /\ outcomes = <<"OSError", "ServiceUnavailable", "DriverError">>
    /\ slept = <<3, 6>>

\* ---------------------------------------------------------------------
\* preload_model_async (clients/ollama_preloader.py lines 36-87), started
\* by AppServices._initialize_clients (app_services.py line 101)
\* ---------------------------------------------------------------------

PreMaxRetries == 4

\* What the warm-up request (lines 58-61) can meet: success,
\* httpx.ConnectError, or an error of another class.
WarmupOutcomes == {"ok", "ConnectError", "ReadTimeout", "ResponseError"}

\* Lines 85-87: the finally block sets the event that was passed.
ReadyEventSet_Never == llm_ready
ReadyEventSet == TRUE

\* Line 74: retries < max_retries after the increment of line 73.
RetryLeft(n, max) == n < max

\* app_services.py line 101 and lines 36-54: the task is created with the
\* event; retries = 0 and the while condition is evaluated.
PreloadStart(max) ==
    /\ preload_pc = "none"
    /\ ~llm_ready
    /\ \E r \in 0..max, d \in {1, 2} :
         /\ preload_args' = [max_retries |-> r, retry_delay |-> d]
         /\ IF RetryLeft(0, r)
              THEN /\ preload_pc' = "try"
                   /\ UNCHANGED llm_ready
              ELSE /\ preload_pc' = "ended"
                   /\ llm_ready' = ReadyEventSet
    /\ retries' = 0
    /\ outcomes' = <<>>
    /\ slept' = <<>>
    /\ UNCHANGED <<supVars, taskVars, queueVars, wsVars, convVars, sttVars,
                   fwdVars, agentVars, ttsVars, engVars, tool_providers,
                   tool_instances, register_log, result, n_queries,
                   engine_tools, startup, managers, objects,
                   reasoning_engine, close_code, shutdown_event, events,
                   synth, synth_result, n_synth, create_args, create_pc,
                   attempt, delay, n_create>>

\* Lines 55-84: the warm-up request returns or raises. Success, the last
\* connection failure and any other error return through the finally block.
PreloadAttempt ==
    /\ preload_pc = "try"
    /\ \E e \in WarmupOutcomes :
         /\ outcomes' = Append(outcomes, e)
         /\ IF e = "ConnectError"
              THEN /\ retries' = retries + 1
                   /\ IF RetryLeft(retries + 1, preload_args.max_retries)
                        THEN /\ preload_pc' = "sleep"
                             /\ UNCHANGED llm_ready
                        ELSE /\ preload_pc' = "ended"
                             /\ llm_ready' = ReadyEventSet
              ELSE /\ retries' = retries
                   /\ preload_pc' = "ended"
                   /\ llm_ready' = ReadyEventSet
    /\ UNCHANGED <<supVars, taskVars, queueVars, wsVars, convVars, sttVars,
                   fwdVars, agentVars, ttsVars, engVars, tool_providers,
                   tool_instances, register_log, result, n_queries,
                   engine_tools, startup, managers, objects,
                   reasoning_engine, close_code, shutdown_event, events,
                   synth, synth_result, n_synth, create_args, create_pc,
                   attempt, delay, slept, n_create, preload_args>>

\* Line 76 returns and the while condition of line 54 holds.
PreloadSlept ==
    /\ preload_pc = "sleep"
    /\ slept' = Append(slept, preload_args.retry_delay)
    /\ preload_pc' = "try"
    /\ UNCHANGED <<supVars, taskVars, queueVars, wsVars, convVars, sttVars,
                   fwdVars, agentVars, ttsVars, engVars, tool_providers,
                   tool_instances, register_log, result, n_queries,
                   engine_tools, startup, managers, objects,
                   reasoning_engine, close_code, shutdown_event, llm_ready,
                   events, synth, synth_result, n_synth, create_args,
                   create_pc, attempt, delay, outcomes, n_create,
                   preload_args, retries>>

\* The task is cancelled while it awaits the request or the sleep (the
\* event loop is closing): CancelledError passes both except clauses and
\* the finally block runs.
PreloadCancelled ==
    /\ preload_pc \in {"try", "sleep"}
    /\ preload_pc' = "cancelled"
    /\ llm_ready' = ReadyEventSet
    /\ UNCHANGED <<supVars, taskVars, queueVars, wsVars, convVars, sttVars,
                   fwdVars, agentVars, ttsVars, engVars, tool_providers,
                   tool_instances, register_log, result, n_queries,
                   engine_tools, startup, managers, objects,
                   reasoning_engine, close_code, shutdown_event, events,
                   synth, synth_result, n_synth, create_args, create_pc,
                   attempt, delay, outcomes, slept, n_create, preload_args,
                   retries>>

NextPreload ==
    \/ PreloadStart(PreMaxRetries)
    \/ PreloadAttempt
    \/ PreloadSlept
    \/ PreloadCancelled

InitPreload == InitSession({FALSE})

\* Every request ends and every sleep returns.
SpecPreload ==
    /\ InitPreload /\ [][NextPreload]_vars
    /\ WF_vars(PreloadStart(PreMaxRetries))
    /\ WF_vars(PreloadAttempt)
    /\ WF_vars(PreloadSlept)

\* Every request before the last one recorded met a connection failure.
EarlierConnectErrors ==
    \A i \in 1..Len(outcomes) - 1 : outcomes[i] = "ConnectError"

\* C38: the readiness event is set exactly when preload_model_async has
\* stopped; it stops after a successful request, after max_retries
\* connection failures, each but the last followed by one sleep of
\* retry_delay, or after the first error of another class; while a request
\* or a sleep is pending the event is not set; and it is set in the end.
ReadySetWhenPreloadStops ==
    /\ [](llm_ready <=> preload_pc \in {"ended", "cancelled"})
    /\ [](preload_pc \in {"try", "sleep"} =>
            /\ ~llm_ready
            /\ retries < preload_args.max_retries
            /\ \A i \in 1..Len(outcomes) : outcomes[i] = "ConnectError"
            /\ retries = Len(outcomes))
    /\ [](preload_pc = "ended" /\ preload_args.max_retries > 0 =>
            /\ EarlierConnectErrors
            /\ Len(slept) = Len(outcomes) - 1
            /\ outcomes[Len(outcomes)] = "ConnectError"
                 => Len(outcomes) = preload_args.max_retries)
    /\ [](\A i \in 1..Len(slept) : slept[i] = preload_args.retry_delay)
    /\ [][llm_ready' # llm_ready
            => preload_pc \in {"none", "try", "sleep"}
               /\ preload_pc' \in {"ended", "cancelled"}]_vars
    /\ <>llm_ready

\* The last of four requests has failed to connect after three sleeps.
ReadySetWhenPreloadStopsWitness ==
    /\ llm_ready
    /\ preload_pc = "ended"
    /\ outcomes = <<"ConnectError", "ConnectError", "ConnectError",
                    "ConnectError">>
    /\ slept = <<2, 2, 2>>

\* The user messages of a history.
RECURSIVE HumanCount(_)
HumanCount(msgs) ==
    IF msgs = <<>> THEN 0
    ELSE (IF Head(msgs).kind = "human" THEN 1 ELSE 0) + HumanCount(Tail(msgs))

\* A history a turn may start from: empty, or ending with an assistant
\* message without tool calls.
EndsWithAnswer(msgs) ==
    \/ msgs = <<>>
    \/ /\ Last(msgs).kind = "ai"
       /\ Last(msgs).tool_calls = <<>>

\* C39: between turns the stored history is empty or ends with an
\* assistant message without tool calls; after the tools the graph goes to
\* the model, prepare_input being entered only from outside a turn, so it
\* runs once per turn; and a turn that completes leaves in the stored
\* history exactly one user message more than it found.
OneUserMessagePerTurn ==
    /\ [](eng_pc = "idle" => EndsWithAnswer(conversation_state))
    /\ [][eng_pc = "execute_tools" /\ eng_pc' # eng_pc
            => eng_pc' = "agent"]_vars
    /\ [][eng_pc' = "prepare_input" /\ eng_pc # "prepare_input"
            => eng_pc = "idle"]_vars
    /\ [][eng_pc = "prepare_input" /\ eng_pc' # eng_pc
            => HumanCount(messages') = HumanCount(messages) + 1]_vars
    /\ [][eng_pc = "end" /\ eng_pc' = "idle"
            => HumanCount(conversation_state')
                 = HumanCount(conversation_state) + 1]_vars

\* C40: the stored history changes only when a turn has reached the end
\* of the graph, and then to the final state of that turn; so when the
\* reasoning engine raises during a turn the stored history is what it
\* was before the turn, without the turn's user message, tool calls and
\* tool results.
HistoryKeptOnFailure ==
    /\ [][conversation_state' # conversation_state
            => /\ eng_pc = "end" /\ eng_pc' = "idle"
               /\ conversation_state' = messages]_vars
    /\ [][InTurn /\ eng_pc' = "idle"
            => conversation_state' = conversation_state]_vars

\* After an answered turn, a turn has failed at the call of the model that
\* follows the tools: its user message, tool call and tool results are in
\* the state of the graph and not in the stored history.
HistoryKeptOnFailureWitness ==
    /\ eng_pc = "idle"
    /\ n_turns = 2 /\ n_exec = 1
    /\ conversation_state # <<>>
    /\ Len(messages) > Len(conversation_state) + 2
    /\ SubSeq(messages, 1, Len(conversation_state)) = conversation_state
    /\ Last(messages).kind = "tool"

====
